---- MODULE Spec2Model ----
(***************************************************************************)
(* State-machine model of the paper-trading core of alpha-lock-profit-     *)
(* engine: the ProfitLockingEngine (position lifecycle and exit            *)
(* evaluation), the AIOrchestrator (signal rate limiting and bandit arms)  *)
(* and the dashboard glue that drives both from market-data ticks.         *)
(*                                                                         *)
(* Numbers.  The TypeScript code computes in IEEE doubles; the model uses  *)
(* exact integer fixed point:                                              *)
(*   - prices, PnL, stops, ATR: integer multiples of 1/Scale currency unit *)
(*   - percentages and thresholds (0.02, 0.15, ...): basis points (1e-4)   *)
(*   - multipliers (2.5, 1.4, ...): hundredths                             *)
(*   - maxDrawdownFromPeak: an exact reduced fraction <<num, den>>         *)
(*   - time: milliseconds, as Date.now()                                   *)
(* The input prices are whole currency units, for which every product and  *)
(* quotient below is exact.                                                *)
(***************************************************************************)
EXTENDS Integers, Sequences, FiniteSets, TLC

VARIABLES
    now,            \* Date.now()
    config,         \* ProfitLockingEngine.config
    positions,      \* ProfitLockingEngine.positions, in Map insertion order
    priceHistory,   \* ProfitLockingEngine.priceHistory
    signalIdMap,    \* ProfitLockingEngine.signalIdMap
    exitCallbacks,  \* ProfitLockingEngine.exitCallbacks, in Set insertion order
    banditArms,     \* AIOrchestrator.banditArms
    performance,    \* AIOrchestrator.strategies[..].performance
    recentSignals,  \* AIOrchestrator.recentSignals
    lastSignalTime, \* AIOrchestrator.lastSignalTime
    orchConfig,     \* AIOrchestrator.config
    running,        \* the trading cycle executing synchronously, if any
    inflight,       \* trading cycles suspended in generateSignal on saveSignal
    accepted,       \* history: every signal generateSignal has returned
    failed,         \* history: serials of the signals whose saveSignal failed
    closeLog,       \* history: closePosition calls handed to persistence
    cbLog,          \* history: exit-callback invocations
    lastResult,     \* return value of the last addPosition call
    nextUid,        \* allocation counter of Position objects
    nextSerial,     \* allocation counter of TradingSignal objects
    tick,           \* number of clock advances so far
    nUpdates,       \* number of updatePositions calls so far
    fePriceHistory,     \* FeatureEngine.priceHistory
    feVolumeHistory,    \* FeatureEngine.volumeHistory
    feOrderBookHistory, \* FeatureEngine.orderBookHistory
    feResult,           \* how the last FeatureEngine call returned
    feCalls,            \* number of updateData calls so far
    feCleanups,         \* number of cleanupOldSymbols calls so far
    lastRegime,         \* return value of the last detectRegime call
    pending,            \* fire-and-forget persistence calls not settled yet
    failures,           \* number of persistence calls that have failed
    twin,               \* in-memory state of the run whose persistence never fails
    selections          \* history: selectStrategy calls with their inputs and result

vars == <<now, config, positions, priceHistory, signalIdMap, exitCallbacks,
          banditArms, performance, recentSignals, lastSignalTime, orchConfig,
          running, inflight, accepted, failed, closeLog, cbLog, lastResult,
          nextUid, nextSerial, tick, nUpdates, fePriceHistory, feVolumeHistory,
          feOrderBookHistory, feResult, feCalls, feCleanups, lastRegime,
          pending,
          failures, twin, selections>>

engineVars == <<config, positions, priceHistory, signalIdMap, exitCallbacks,
                closeLog, cbLog, lastResult, nextUid>>

orchVars == <<recentSignals, lastSignalTime, orchConfig, running, inflight,
              accepted, failed, nextSerial>>

featVars == <<fePriceHistory, feVolumeHistory, feOrderBookHistory, feResult,
              feCalls, feCleanups>>

persistVars == <<lastRegime, pending, failures, twin>>

----------------------------------------------------------------------------
(* Bounds of the exploration *)

MaxTicks == 2

MaxAdds == 2

MaxUpdates == 1

MaxAddsCap == 4

MaxUpdatesCap == 1

MaxTicksCap == 2

MaxAddsTick == 1

MaxUpdatesTick == 3

MaxTicksTick == 2

MaxAddsApi == 2

MaxUpdatesApi == 2

MaxTicksApi == 2

MaxReentry == 1

\* SpecThrow: addPosition calls, updatePositions calls and clock steps
MaxAddsThrow == 2

MaxUpdatesThrow == 1

MaxTicksThrow == 2

\* SpecPersist: addPosition calls, updatePositions calls, clock steps,
\* persistence calls in flight at once and persistence calls that fail
MaxAddsPersist == 1

MaxUpdatesPersist == 1

MaxTicksPersist == 2

MaxPendingPersist == 3

MaxFailuresPersist == 1

\* SpecClose: addPosition calls, updatePositions calls and clock steps
MaxAddsClose == 1

MaxUpdatesClose == 1

MaxTicksClose == 2

\* SpecRegime: clock steps
MaxTicksRegime == 2

AtrPeriodCfg == 2

MaxPositionsCfg == 4

MaxInflight == 2

MaxFeedsOrch == 2

MaxTicksOrch == 1

MaxInflightRace == 2

MaxFeedsRace == 3

MaxTicksRace == 2

MaxRewards == 4

MaxFeedsFeature == 11

MaxCleanups == 1

MaxFeedsBuffer == 202

MaxInflightReward == 2

MaxFeedsReward == 3

MaxTicksReward == 2

----------------------------------------------------------------------------
(* Generic helpers *)

Scale == 10 * 100

Min(a, b) == IF a < b THEN a ELSE b

Max(a, b) == IF a > b THEN a ELSE b

Abs(a) == IF a < 0 THEN -a ELSE a

RECURSIVE GCD(_, _)
GCD(a, b) == IF b = 0 THEN a ELSE GCD(b, a % b)

Frac(n, d) == LET g == GCD(Abs(n), Abs(d)) IN IF n = 0 THEN <<0, 1>> ELSE <<n \div g, d \div g>>

FracLess(x, y) == x[1] * y[2] < y[1] * x[2]

FracMax(x, y) == IF FracLess(x, y) THEN y ELSE x

FracMin(x, y) == IF FracLess(y, x) THEN y ELSE x

Indices(s) == 1..Len(s)

Range(s) == {s[i] : i \in DOMAIN s}

----------------------------------------------------------------------------
(* Domain *)

Symbols == {"BTCUSDT", "ETHUSDT"}

StrategyIds == {"trend_following", "swing_trading", "momentum", "mean_reversion",
                "breakout", "scalping", "statistical_arbitrage", "contextual_bandits"}

methodMappings ==
    [s \in StrategyIds |->
        CASE s = "scalping" -> "partial_profit_scaling"
          [] s = "momentum" -> "volatility_adaptive_trailing_stop"
          [] s = "trend_following" -> "volatility_adaptive_trailing_stop"
          [] s = "mean_reversion" -> "fixed_take_profit"
          [] s = "breakout" -> "volatility_adaptive_trailing_stop"
          [] s = "swing_trading" -> "drawdown_trailing_stop"
          [] s = "statistical_arbitrage" -> "edge_decay_exit"
          [] s = "contextual_bandits" -> "drawdown_trailing_stop"]

\* Property names that the object literal methodMappings inherits from
\* Object.prototype: a lookup of one of them yields a function (or the
\* prototype object), which is truthy.
InheritedKeys == {"constructor", "toString", "valueOf", "hasOwnProperty", "__proto__"}

\* What methodMappings[key] yields for an inherited key; no method name
InheritedMember == "Object.prototype member"

\* methodMappings[signal.strategy] || 'volatility_adaptive_trailing_stop'
selectProfitLockMethod(signal) ==
    IF signal.strategy \in DOMAIN methodMappings
    THEN methodMappings[signal.strategy]
    ELSE IF signal.strategy \in InheritedKeys
    THEN InheritedMember
    ELSE "volatility_adaptive_trailing_stop"

MethodNames == {"volatility_adaptive_trailing_stop", "partial_profit_scaling",
                "fixed_take_profit", "time_based_stop", "edge_decay_exit",
                "drawdown_trailing_stop"}

\* Constructor defaults of the engine (TradingConfig), before the caller's overrides.
EngineDefaults ==
    [maxPositions |-> 250,
     riskPerTrade |-> 200,
     stopLossPercent |-> 300,
     takeProfitMultiplier |-> 250,
     atrPeriod |-> 14,
     trailingStopPercent |-> 200]

\* new ProfitLockingEngine(overrides): { ...defaults, ...config }
Construct(overrides) ==
    [k \in DOMAIN EngineDefaults |->
        IF k \in DOMAIN overrides THEN overrides[k] ELSE EngineDefaults[k]]

\* The defaultConfigs getter: per-method tuning derived from the current config.
defaultConfigs(cfg) ==
    [m \in MethodNames |->
        CASE m = "volatility_adaptive_trailing_stop" ->
                [atrMultiplier |-> cfg.takeProfitMultiplier,
                 trailingPercent |-> cfg.trailingStopPercent,
                 partialProfitLevels |-> <<>>,
                 timeBasedExitMinutes |-> 0,
                 edgeDecayThreshold |-> 1000,
                 maxDrawdownPercent |-> 1500]
          [] m = "partial_profit_scaling" ->
                [atrMultiplier |-> (cfg.takeProfitMultiplier * 8) \div 10,
                 trailingPercent |-> (cfg.trailingStopPercent * 8) \div 10,
                 partialProfitLevels |-> <<5000, 7500>>,
                 timeBasedExitMinutes |-> 0,
                 edgeDecayThreshold |-> 1000,
                 maxDrawdownPercent |-> 1200]
          [] m = "fixed_take_profit" ->
                [atrMultiplier |-> (cfg.takeProfitMultiplier * 6) \div 10,
                 trailingPercent |-> (cfg.trailingStopPercent * 12) \div 10,
                 partialProfitLevels |-> <<>>,
                 timeBasedExitMinutes |-> 0,
                 edgeDecayThreshold |-> 1000,
                 maxDrawdownPercent |-> 2000]
          [] m = "time_based_stop" ->
                [atrMultiplier |-> cfg.takeProfitMultiplier,
                 trailingPercent |-> cfg.trailingStopPercent,
                 partialProfitLevels |-> <<>>,
                 timeBasedExitMinutes |-> 240,
                 edgeDecayThreshold |-> 1000,
                 maxDrawdownPercent |-> 1500]
          [] m = "edge_decay_exit" ->
                [atrMultiplier |-> (cfg.takeProfitMultiplier * 12) \div 10,
                 trailingPercent |-> (cfg.trailingStopPercent * 15) \div 10,
                 partialProfitLevels |-> <<>>,
                 timeBasedExitMinutes |-> 0,
                 edgeDecayThreshold |-> 500,
                 maxDrawdownPercent |-> 1800]
          [] m = "drawdown_trailing_stop" ->
                [atrMultiplier |-> (cfg.takeProfitMultiplier * 14) \div 10,
                 trailingPercent |-> (cfg.trailingStopPercent * 8) \div 10,
                 partialProfitLevels |-> <<>>,
                 timeBasedExitMinutes |-> 0,
                 edgeDecayThreshold |-> 1000,
                 maxDrawdownPercent |-> 1000]]

----------------------------------------------------------------------------
(* ProfitLockingEngine: pure helpers *)

Rejected == <<>>

\* addPosition ends with a TypeError instead of a return value
Thrown == <<"TypeError">>

NoSignalId == 0

RECURSIVE SumRanges(_, _)
SumRanges(prices, m) ==
    IF m < 2 THEN 0
    ELSE Abs(prices[m] - prices[m - 1]) + SumRanges(prices, m - 1)

\* priceHistory[symbol] || [] ; the first atrPeriod prices of the buffer are averaged.
calculateATR(ph, cfg, symbol) ==
    LET prices == ph[symbol]
        n == Len(prices)
    IN  IF n < cfg.atrPeriod
        THEN IF n > 0 THEN (prices[n] * cfg.stopLossPercent) \div 10000
                      ELSE Scale \div 100
        ELSE SumRanges(prices, Min(cfg.atrPeriod, n)) \div Min(cfg.atrPeriod - 1, n - 1)

calculateInitialStopPrice(signal, cfg) ==
    LET stopDistance == (signal.price * cfg.stopLossPercent) \div 10000
    IN  IF signal.action = "buy" THEN signal.price - stopDistance
                                 ELSE signal.price + stopDistance

calculateTakeProfitPrice(signal, mcfg, atr) ==
    LET atrDistance == (atr * mcfg.atrMultiplier * 2) \div 100
    IN  IF signal.action = "buy" THEN signal.price + atrDistance
                                 ELSE signal.price - atrDistance

\* A score that keeps its initial value
calculateEdgeDecay_NoDecay(entryTime, t) == 10000

\* floor(1e4 * exp(-0.1 * k)) for k = 0..48 whole hours
ExpTable ==
    <<10000, 9048, 8187, 7408, 6703, 6065, 5488, 4965, 4493, 4065, 3678, 3328,
      3011, 2725, 2465, 2231, 2018, 1826, 1652, 1495, 1353, 1224, 1108, 1002,
      907, 820, 742, 672, 608, 550, 497, 450, 407, 368, 333, 301, 273, 247,
      223, 202, 183, 165, 149, 135, 122, 111, 100, 90, 82>>

\* Math.exp(-0.1 * hours) in basis points: the table value of the whole hours
\* times the second-order Taylor factor of the remaining fraction of an hour.
\* Beyond the table the score is the last table entry (below every threshold).
calculateEdgeDecay(entryTime, t) ==
    LET timeElapsed == t - entryTime
        k == timeElapsed \div 3600000
        y == (timeElapsed % 3600000) \div 3600
        f == 10000 - y + (y * y) \div 20000
    IN  IF k + 1 > Len(ExpTable) THEN ExpTable[Len(ExpTable)]
        ELSE (ExpTable[k + 1] * f) \div 10000

updateTrailingStop_Loosen(p, cfg) ==
    LET mcfg == defaultConfigs(cfg)[p.profitLockMethod]
    IN  IF p.side = "long"
        THEN [p EXCEPT !.trailingStopPrice =
                 (p.currentPrice * (10000 - mcfg.trailingPercent)) \div 10000]
        ELSE [p EXCEPT !.trailingStopPrice =
                 (p.currentPrice * (10000 + mcfg.trailingPercent)) \div 10000]

updateTrailingStop(p, cfg) ==
    LET mcfg == defaultConfigs(cfg)[p.profitLockMethod]
    IN  IF p.side = "long"
        THEN LET newStop == (p.currentPrice * (10000 - mcfg.trailingPercent)) \div 10000
             IN  IF newStop > p.trailingStopPrice
                 THEN [p EXCEPT !.trailingStopPrice = newStop] ELSE p
        ELSE LET newStop == (p.currentPrice * (10000 + mcfg.trailingPercent)) \div 10000
             IN  IF newStop < p.trailingStopPrice
                 THEN [p EXCEPT !.trailingStopPrice = newStop] ELSE p

isTrailingStopTriggered(p) ==
    IF p.side = "long" THEN p.currentPrice <= p.trailingStopPrice
                       ELSE p.currentPrice >= p.trailingStopPrice

isTakeProfitTriggered(p) ==
    IF p.side = "long" THEN p.currentPrice >= p.takeProfitPrice
                       ELSE p.currentPrice <= p.takeProfitPrice

\* The test without its guard for methods that set no time limit.
isTimeBasedExitTriggered_NoZeroGuard(p, mcfg, t) ==
    (t - p.entryTime) >= mcfg.timeBasedExitMinutes * 60000

isTimeBasedExitTriggered(p, mcfg, t) ==
    IF mcfg.timeBasedExitMinutes = 0 THEN FALSE
    ELSE (t - p.entryTime) >= mcfg.timeBasedExitMinutes * 60000

\* The drawdown part of updatePosition: clamp to [0, 5] and keep the maximum.
nextDrawdown_NoMax(prev, peak, pnl) ==
    LET drawdownFromPeak == IF peak > 0 THEN Frac(peak - pnl, peak) ELSE <<0, 1>>
    IN  FracMin(FracMax(<<0, 1>>, drawdownFromPeak), <<5, 1>>)

nextDrawdown(prev, peak, pnl) ==
    LET drawdownFromPeak == IF peak > 0 THEN Frac(peak - pnl, peak) ELSE <<0, 1>>
        clampedDrawdown == FracMin(FracMax(<<0, 1>>, drawdownFromPeak), <<5, 1>>)
    IN  FracMax(prev, clampedDrawdown)

\* The update that takes the PnL of the tick as the peak.
updatePositionObj_PeakIsLast(p, currentPrice, cfg, t) ==
    LET priceDiff == currentPrice - p.entryPrice
        pnl == IF p.side = "long" THEN priceDiff * p.size ELSE (-priceDiff) * p.size
        minutes == (t - p.entryTime) \div 60000
        hours == minutes \div 60
        p1 == [p EXCEPT !.currentPrice = currentPrice,
                        !.unrealizedPnL = pnl,
                        !.unrealizedPnLPct = (pnl * 10000) \div (p.entryPrice * p.size),
                        !.peakPnL = pnl,
                        !.maxDrawdownFromPeak = nextDrawdown(p.maxDrawdownFromPeak, pnl, pnl),
                        !.timeHeld = IF hours > 0 THEN <<hours, minutes % 60>>
                                                  ELSE <<minutes>>,
                        !.edgeDecayScore = calculateEdgeDecay(p.entryTime, t)]
    IN  updateTrailingStop(p1, cfg)

\* updatePosition on one Position object p at time t; ph is priceHistory.
\* The update with the PnL of a long position on either side.
updatePositionObj_ShortAsLong(p, currentPrice, cfg, t) ==
    LET pnl == (currentPrice - p.entryPrice) * p.size
        peak == IF pnl > p.peakPnL THEN pnl ELSE p.peakPnL
        minutes == (t - p.entryTime) \div 60000
        hours == minutes \div 60
        p1 == [p EXCEPT !.currentPrice = currentPrice,
                        !.unrealizedPnL = pnl,
                        !.unrealizedPnLPct = (pnl * 10000) \div (p.entryPrice * p.size),
                        !.peakPnL = peak,
                        !.maxDrawdownFromPeak = nextDrawdown(p.maxDrawdownFromPeak, peak, pnl),
                        !.timeHeld = IF hours > 0 THEN <<hours, minutes % 60>>
                                                  ELSE <<minutes>>,
                        !.edgeDecayScore = calculateEdgeDecay(p.entryTime, t)]
    IN  updateTrailingStop(p1, cfg)

updatePositionObj(p, currentPrice, cfg, t) ==
    LET priceDiff == currentPrice - p.entryPrice
        pnl == IF p.side = "long" THEN priceDiff * p.size ELSE (-priceDiff) * p.size
        pnlPct == (pnl * 10000) \div (p.entryPrice * p.size)
        peak == IF pnl > p.peakPnL THEN pnl ELSE p.peakPnL
        timeElapsed == t - p.entryTime
        minutes == timeElapsed \div 60000
        hours == minutes \div 60
        p1 == [p EXCEPT !.currentPrice = currentPrice,
                        !.unrealizedPnL = pnl,
                        !.unrealizedPnLPct = pnlPct,
                        !.peakPnL = peak,
                        !.maxDrawdownFromPeak = nextDrawdown(p.maxDrawdownFromPeak, peak, pnl),
                        !.timeHeld = IF hours > 0 THEN <<hours, minutes % 60>>
                                                  ELSE <<minutes>>,
                        !.edgeDecayScore = calculateEdgeDecay(p.entryTime, t)]
    IN  updateTrailingStop(p1, cfg)

pushHistory(ph, symbol, currentPrice, cfg) ==
    LET h1 == Append(ph[symbol], currentPrice)
        h2 == IF Len(h1) > cfg.atrPeriod * 5 THEN Tail(h1) ELSE h1
    IN  [ph EXCEPT ![symbol] = h2]

exitReasons_NoTakeProfit(p, cfg, t) ==
    LET mcfg == defaultConfigs(cfg)[p.profitLockMethod]
        positionAge == t - p.entryTime
        r1 == IF isTrailingStopTriggered(p) THEN <<"Trailing stop triggered">> ELSE <<>>
        r3 == IF isTimeBasedExitTriggered(p, mcfg, t) THEN <<"Time-based exit">> ELSE <<>>
        r4 == IF p.edgeDecayScore < mcfg.edgeDecayThreshold /\ positionAge > 60000
              THEN <<"Edge decay threshold reached">> ELSE <<>>
        r5 == IF /\ p.maxDrawdownFromPeak[1] * 10000
                        > mcfg.maxDrawdownPercent * p.maxDrawdownFromPeak[2]
                 /\ p.unrealizedPnL < 0
              THEN <<"Maximum drawdown exceeded">> ELSE <<>>
    IN  IF positionAge < 10000 THEN <<>> ELSE r1 \o r3 \o r4 \o r5

\* The drawdown reason without the test of the sign of the PnL
exitReasons_DrawdownAnyPnl(p, cfg, t) ==
    LET mcfg == defaultConfigs(cfg)[p.profitLockMethod]
        positionAge == t - p.entryTime
        r1 == IF isTrailingStopTriggered(p) THEN <<"Trailing stop triggered">> ELSE <<>>
        r2 == IF isTakeProfitTriggered(p) THEN <<"Take profit reached">> ELSE <<>>
        r3 == IF isTimeBasedExitTriggered(p, mcfg, t) THEN <<"Time-based exit">> ELSE <<>>
        r4 == IF p.edgeDecayScore < mcfg.edgeDecayThreshold /\ positionAge > 60000
              THEN <<"Edge decay threshold reached">> ELSE <<>>
        r5 == IF p.maxDrawdownFromPeak[1] * 10000
                    > mcfg.maxDrawdownPercent * p.maxDrawdownFromPeak[2]
              THEN <<"Maximum drawdown exceeded">> ELSE <<>>
    IN  IF positionAge < 10000 THEN <<>> ELSE r1 \o r2 \o r3 \o r4 \o r5

\* Only the first reason that holds is reported.
exitReasons_FirstOnly(p, cfg, t) ==
    LET mcfg == defaultConfigs(cfg)[p.profitLockMethod]
        positionAge == t - p.entryTime
        r1 == IF isTrailingStopTriggered(p) THEN <<"Trailing stop triggered">> ELSE <<>>
        r2 == IF isTakeProfitTriggered(p) THEN <<"Take profit reached">> ELSE <<>>
        r3 == IF isTimeBasedExitTriggered(p, mcfg, t) THEN <<"Time-based exit">> ELSE <<>>
        r4 == IF p.edgeDecayScore < mcfg.edgeDecayThreshold /\ positionAge > 60000
              THEN <<"Edge decay threshold reached">> ELSE <<>>
        r5 == IF /\ p.maxDrawdownFromPeak[1] * 10000
                        > mcfg.maxDrawdownPercent * p.maxDrawdownFromPeak[2]
                 /\ p.unrealizedPnL < 0
              THEN <<"Maximum drawdown exceeded">> ELSE <<>>
        all == r1 \o r2 \o r3 \o r4 \o r5
    IN  IF positionAge < 10000 \/ all = <<>> THEN <<>> ELSE <<all[1]>>

\* The reasons checkExitConditions collects, in order; <<>> when the position
\* is younger than 10 seconds or no condition holds.
exitReasons(p, cfg, t) ==
    LET mcfg == defaultConfigs(cfg)[p.profitLockMethod]
        positionAge == t - p.entryTime
        r1 == IF isTrailingStopTriggered(p) THEN <<"Trailing stop triggered">> ELSE <<>>
        r2 == IF isTakeProfitTriggered(p) THEN <<"Take profit reached">> ELSE <<>>
        r3 == IF isTimeBasedExitTriggered(p, mcfg, t) THEN <<"Time-based exit">> ELSE <<>>
        r4 == IF p.edgeDecayScore < mcfg.edgeDecayThreshold /\ positionAge > 60000
              THEN <<"Edge decay threshold reached">> ELSE <<>>
        r5 == IF /\ p.maxDrawdownFromPeak[1] * 10000
                        > mcfg.maxDrawdownPercent * p.maxDrawdownFromPeak[2]
                 /\ p.unrealizedPnL < 0
              THEN <<"Maximum drawdown exceeded">> ELSE <<>>
    IN  IF positionAge < 10000 THEN <<>> ELSE r1 \o r2 \o r3 \o r4 \o r5

----------------------------------------------------------------------------
(* AIOrchestrator: bandit arms *)

initializeBandits == [s \in StrategyIds |-> [wins |-> 1, trials |-> 1, alpha |-> 1, beta |-> 1]]

updateReward_WinsLater(ap, signal, profit) ==
    IF signal.strategy \notin DOMAIN ap[1] THEN ap
    ELSE LET arm == ap[1][signal.strategy]
             arm2 == IF profit > 0
                     THEN [arm EXCEPT !.alpha = @ + 1, !.trials = @ + 1]
                     ELSE [arm EXCEPT !.beta = @ + 1]
             perf1 == Append(ap[2][signal.strategy], profit)
             perf2 == IF Len(perf1) > 50 THEN Tail(perf1) ELSE perf1
         IN  <<[ap[1] EXCEPT ![signal.strategy] = arm2],
               [ap[2] EXCEPT ![signal.strategy] = perf2]>>

updateReward_NoTrials(ap, signal, profit) ==
    IF signal.strategy \notin DOMAIN ap[1] THEN ap
    ELSE LET arm == ap[1][signal.strategy]
             arm2 == IF profit > 0
                     THEN [arm EXCEPT !.alpha = @ + 1, !.wins = @ + 1]
                     ELSE [arm EXCEPT !.beta = @ + 1, !.trials = @ + 1]
             perf1 == Append(ap[2][signal.strategy], profit)
             perf2 == IF Len(perf1) > 50 THEN Tail(perf1) ELSE perf1
         IN  <<[ap[1] EXCEPT ![signal.strategy] = arm2],
               [ap[2] EXCEPT ![signal.strategy] = perf2]>>

\* A loss taken back from the wins of the arm
updateReward_LossFromWins(ap, signal, profit) ==
    IF signal.strategy \notin DOMAIN ap[1] THEN ap
    ELSE LET arm == ap[1][signal.strategy]
             arm2 == IF profit > 0
                     THEN [arm EXCEPT !.alpha = @ + 1, !.wins = @ + 1, !.trials = @ + 1]
                     ELSE [arm EXCEPT !.beta = @ + 1, !.wins = @ - 1, !.trials = @ + 1]
             perf1 == Append(ap[2][signal.strategy], profit)
             perf2 == IF Len(perf1) > 50 THEN Tail(perf1) ELSE perf1
         IN  <<[ap[1] EXCEPT ![signal.strategy] = arm2],
               [ap[2] EXCEPT ![signal.strategy] = perf2]>>

\* updateReward on the pair <<banditArms, performance>>
updateReward(ap, signal, profit) ==
    IF signal.strategy \notin DOMAIN ap[1] THEN ap
    ELSE LET arm == ap[1][signal.strategy]
             arm2 == IF profit > 0
                     THEN [arm EXCEPT !.alpha = @ + 1, !.wins = @ + 1, !.trials = @ + 1]
                     ELSE [arm EXCEPT !.beta = @ + 1, !.trials = @ + 1]
             perf1 == Append(ap[2][signal.strategy], profit)
             perf2 == IF Len(perf1) > 50 THEN Tail(perf1) ELSE perf1
         IN  <<[ap[1] EXCEPT ![signal.strategy] = arm2],
               [ap[2] EXCEPT ![signal.strategy] = perf2]>>

----------------------------------------------------------------------------
(* AIOrchestrator: signal generation.  Features, confidences and the      *)
(* thresholds they are compared with are in basis points.                 *)

OrchDefaults ==
    [learningRate |-> 150, explorationRate |-> 800, minConfidenceThreshold |-> 2500,
     maxSignalsPerSymbol |-> 2, signalCooldownMs |-> 30000]

\* The window of the per-symbol count of recent signals, in ms
RecentWindowMs == 300000

\* The capacity of the recentSignals buffer
RecentSignalsCap == 100

\* FeatureEngine.detectRegime, on the features it has extracted
\* The rules with the trend tested before the volatility.
detectRegime_TrendFirst(features) ==
    IF Abs(features.trend) > 6000
    THEN [type |-> "trending", confidence |-> Abs(features.trend)]
    ELSE IF features.volatility > 7000
    THEN [type |-> "volatile", confidence |-> features.volatility]
    ELSE IF features.meanReversion > 6000
    THEN [type |-> "ranging", confidence |-> features.meanReversion]
    ELSE [type |-> "stable", confidence |-> 5000]

detectRegime(features) ==
    IF features.volatility > 7000
    THEN [type |-> "volatile", confidence |-> features.volatility]
    ELSE IF Abs(features.trend) > 6000
    THEN [type |-> "trending", confidence |-> Abs(features.trend)]
    ELSE IF features.meanReversion > 6000
    THEN [type |-> "ranging", confidence |-> features.meanReversion]
    ELSE [type |-> "stable", confidence |-> 5000]

\* selectStrategy draws Beta samples and, with probability explorationRate,
\* a uniformly random arm: every strategy is a possible outcome.
selectStrategy == StrategyIds

Decide(signal, action, confidence) ==
    [signal EXCEPT !.action = action, !.confidence = confidence]

trendFollowingStrategy(signal, features) ==
    IF Abs(features.trend) > 50
    THEN Decide(signal, IF features.trend > 0 THEN "buy" ELSE "sell",
                Min(Abs(features.trend) * 15, 9500))
    ELSE signal

momentumStrategy(signal, features) ==
    IF Abs(features.momentum) > 20
    THEN Decide(signal, IF features.momentum > 0 THEN "buy" ELSE "sell",
                Min(Abs(features.momentum) * 25, 9000))
    ELSE signal

meanReversionStrategy(signal, features) ==
    IF features.meanReversion > 4000 /\ features.volatility > 3000
    THEN Decide(signal, IF features.trend < 0 THEN "buy" ELSE "sell",
                features.meanReversion)
    ELSE signal

breakoutStrategy(signal, features) ==
    IF features.volatility > 6000 /\ features.liquidity > 5000
       /\ Abs(features.momentum) > 300
    THEN Decide(signal, IF features.momentum > 0 THEN "buy" ELSE "sell",
                Min(features.volatility + features.momentum, 10000))
    ELSE signal

scalpingStrategy(signal, features) ==
    IF features.liquidity > 7000 /\ features.volatility < 4000
       /\ Abs(features.ofi) > 3000
    THEN Decide(signal, IF features.ofi > 0 THEN "buy" ELSE "sell", Abs(features.ofi))
    ELSE signal

swingTradingStrategy(signal, features, regime) ==
    IF regime.type = "ranging" /\ features.volatility > 2000
       /\ features.volatility < 6000 /\ Abs(features.meanReversion) > 3000
    THEN Decide(signal, IF features.trend < -1000 THEN "buy" ELSE "sell",
                (features.meanReversion * regime.confidence) \div 10000)
    ELSE signal

statisticalArbitrageStrategy(signal, features) ==
    IF Abs(features.correlation) > 7000 /\ features.meanReversion > 5000
    THEN Decide(signal,
                IF features.correlation * features.trend < 0 THEN "buy" ELSE "sell",
                (Min(Abs(features.correlation) + features.meanReversion, 10000) * 8)
                    \div 10)
    ELSE signal

\* combined is the weighted sum in tenths of a basis point
contextualBanditsStrategy(signal, features, regime) ==
    LET combined == 3 * features.trend + 2 * features.momentum + 2 * features.ofi
                    - features.meanReversion + 2 * features.vpin
    IN  IF Abs(combined) > 30000
        THEN Decide(signal, IF combined > 0 THEN "buy" ELSE "sell",
                    Min((Abs(combined) * regime.confidence) \div 100000, 10000))
        ELSE signal

executeStrategy(strategyId, symbol, price, features, regime, t, serial) ==
    LET baseSignal == [symbol |-> symbol, action |-> "hold", confidence |-> 0,
                       strategy |-> strategyId, price |-> price, timestamp |-> t,
                       serial |-> serial]
    IN  CASE strategyId = "trend_following" -> trendFollowingStrategy(baseSignal, features)
          [] strategyId = "momentum" -> momentumStrategy(baseSignal, features)
          [] strategyId = "mean_reversion" -> meanReversionStrategy(baseSignal, features)
          [] strategyId = "breakout" -> breakoutStrategy(baseSignal, features)
          [] strategyId = "scalping" -> scalpingStrategy(baseSignal, features)
          [] strategyId = "swing_trading" ->
                 swingTradingStrategy(baseSignal, features, regime)
          [] strategyId = "statistical_arbitrage" ->
                 statisticalArbitrageStrategy(baseSignal, features)
          [] strategyId = "contextual_bandits" ->
                 contextualBanditsStrategy(baseSignal, features, regime)
          [] OTHER -> baseSignal

\* lastSignalTime.get(symbol) || 0
LastSignalOf(last, symbol) == IF symbol \in DOMAIN last THEN last[symbol] ELSE 0

recentSymbolSignals(recent, symbol, t) ==
    SelectSeq(recent, LAMBDA s : s.symbol = symbol /\ t - s.timestamp < RecentWindowMs)

\* generateSignal up to its suspension on saveSignal: the call returns null
\* (cooldown, too_many, low_confidence) or hands the signal to saveSignal.
generateSignalStart(recent, last, ocfg, call, strategy, t, serial) ==
    LET signal == executeStrategy(strategy, call.symbol, call.price, call.features,
                                  call.regime, t, serial)
    IN  IF t - LastSignalOf(last, call.symbol) < ocfg.signalCooldownMs
        THEN [kind |-> "cooldown"]
        ELSE IF Len(recentSymbolSignals(recent, call.symbol, t))
                    >= ocfg.maxSignalsPerSymbol
        THEN [kind |-> "too_many"]
        ELSE IF signal.confidence >= ocfg.minConfidenceThreshold
        THEN [kind |-> "save", signal |-> signal]
        ELSE [kind |-> "low_confidence"]

generateSignalResume_IgnoreFailure(recent, last, signal, signalId, t) ==
    LET pushed == Append(recent, signal)
    IN  [recent |-> IF Len(pushed) > RecentSignalsCap THEN Tail(pushed) ELSE pushed,
         last |-> [k \in DOMAIN last \cup {signal.symbol} |->
                      IF k = signal.symbol THEN t ELSE last[k]],
         result |-> <<[signal |-> signal, signalId |-> signalId]>>]

\* The push without the shift that keeps the buffer at its capacity
generateSignalResume_NoShift(recent, last, signal, signalId, t) ==
    IF signalId = NoSignalId
    THEN [recent |-> recent, last |-> last, result |-> <<>>]
    ELSE [recent |-> Append(recent, signal),
          last |-> [k \in DOMAIN last \cup {signal.symbol} |->
                       IF k = signal.symbol THEN t ELSE last[k]],
          result |-> <<[signal |-> signal, signalId |-> signalId]>>]

\* generateSignal from the point saveSignal has settled with signalId
\* (NoSignalId when the write failed); result is <<>> for null.
generateSignalResume(recent, last, signal, signalId, t) ==
    IF signalId = NoSignalId
    THEN [recent |-> recent, last |-> last, result |-> <<>>]
    ELSE LET pushed == Append(recent, signal)
         IN  [recent |-> IF Len(pushed) > RecentSignalsCap THEN Tail(pushed) ELSE pushed,
              last |-> [k \in DOMAIN last \cup {signal.symbol} |->
                           IF k = signal.symbol THEN t ELSE last[k]],
              result |-> <<[signal |-> signal, signalId |-> signalId]>>]

----------------------------------------------------------------------------
(* ProfitLockingEngine: updatePositions, with the exit callbacks it runs.  *)
(* E is the engine and its collaborators during one synchronous call:     *)
(*   objs  the Position objects that were live when the call started       *)
(*   live  the indices of objs still in the positions Map, in Map order    *)
(* A callback is one of                                                    *)
(*   "reward"   the dashboard's callback: updateReward(signal, PnL)        *)
(*   "refresh"  a subscriber that calls updatePositions with the latest    *)
(*              prices again, at most MaxReentry levels deep               *)

CallbackKinds == {"reward", "refresh"}

\* A callback that throws when it is invoked; the try/catch around each
\* callback logs the error, so the invocation leaves nothing else behind.
Throwing == "throws"

\* A callback that calls updatePositions with prices of its own while the
\* exiting position is still in the live set
Repricing == "reprice"

RepricePrices == [BTCUSDT |-> 130 * Scale, ETHUSDT |-> 130 * Scale]

\* clampToDecimal20_8 on amounts in 1/Scale units: an amount of 10^12 currency
\* units or more, of either sign, is cut to the bound 999999999999.99999999.
Decimal20_8Limit == 1000000000

clampToDecimal20_8(value) ==
    IF (Abs(value) \div Scale) \div 1000 < Decimal20_8Limit THEN value
    ELSE IF value > 0 THEN Decimal20_8Limit * 1000 * Scale - 1
    ELSE 1 - Decimal20_8Limit * 1000 * Scale

RECURSIVE forEachPosition(_, _, _, _, _)
RECURSIVE forEachCallback(_, _, _, _, _, _, _)
RECURSIVE exitPosition(_, _, _, _, _, _)

exitPosition_NoCallbacks(E, r, reason, prices, t, depth) ==
    LET p == E.objs[r]
        E1 == [E EXCEPT !.closeLog = Append(@, [uid |-> p.uid, reason |-> reason,
                                               method |-> p.profitLockMethod,
                                               strategy |-> p.originalSignal.strategy,
                                               age |-> t - p.entryTime,
                                               realized_pnl |-> p.unrealizedPnL])]
        id == E1.objs[r].id
    IN  [E1 EXCEPT !.live = SelectSeq(@, LAMBDA i : E1.objs[i].id # id),
                   !.sid = [k \in (DOMAIN @) \ {id} |-> @[k]]]

\* closePosition reads the position only after the callbacks have run.
exitPosition_LateRead(E, r, reason, prices, t, depth) ==
    LET E2 == forEachCallback(E, E.cbs, r, reason, prices, t, depth)
        p == E2.objs[r]
        E3 == [E2 EXCEPT !.closeLog = Append(@, [uid |-> p.uid, reason |-> reason,
                                               method |-> p.profitLockMethod,
                                               strategy |-> p.originalSignal.strategy,
                                               age |-> t - p.entryTime,
                                                realized_pnl |->
                                                    clampToDecimal20_8(p.unrealizedPnL)])]
    IN  [E3 EXCEPT !.live = SelectSeq(@, LAMBDA i : E3.objs[i].id # p.id),
                   !.sid = [k \in (DOMAIN @) \ {p.id} |-> @[k]]]

exitPosition(E, r, reason, prices, t, depth) ==
    LET p == E.objs[r]
        E1 == [E EXCEPT !.closeLog = Append(@, [uid |-> p.uid, reason |-> reason,
                                               method |-> p.profitLockMethod,
                                               strategy |-> p.originalSignal.strategy,
                                               age |-> t - p.entryTime,
                                               realized_pnl |->
                                                   clampToDecimal20_8(p.unrealizedPnL)])]
        E2 == forEachCallback(E1, E1.cbs, r, reason, prices, t, depth)
        id == E2.objs[r].id
    IN  [E2 EXCEPT !.live = SelectSeq(@, LAMBDA i : E2.objs[i].id # id),
                   !.sid = [k \in (DOMAIN @) \ {id} |-> @[k]]]

\* E.trace lists what the call has done so far, in order: an "update" entry
\* with the fields updatePosition has written on a Position object, a "check"
\* entry with the fields checkExitConditions finds on it.
checkExitConditions(E, r, prices, t, depth) ==
    LET p == E.objs[r]
        reasons == exitReasons(p, E.cfg, t)
        E0 == [E EXCEPT !.trace = Append(@, [ev |-> "check", uid |-> p.uid,
                                             price |-> prices[p.symbol], obj |-> p])]
    IN  IF Len(reasons) > 0 THEN exitPosition(E0, r, reasons, prices, t, depth) ELSE E0

updatePosition(E, r, currentPrice, t) ==
    LET q == updatePositionObj(E.objs[r], currentPrice, E.cfg, t)
    IN  [E EXCEPT !.ph = pushHistory(@, E.objs[r].symbol, currentPrice, E.cfg),
                  !.objs[r] = q,
                  !.trace = Append(@, [ev |-> "update", uid |-> q.uid,
                                       price |-> currentPrice, obj |-> q])]

\* The loop with the exit conditions evaluated before the update of the tick
forEachPosition_CheckFirst(E, todo, prices, t, depth) ==
    IF todo = <<>> THEN E
    ELSE LET r == Head(todo)
         IN  IF r \notin Range(E.live) THEN forEachPosition(E, Tail(todo), prices, t, depth)
             ELSE IF prices[E.objs[r].symbol] # 0
                  THEN LET E1 == checkExitConditions(E, r, prices, t, depth)
                           E2 == updatePosition(E1, r, prices[E.objs[r].symbol], t)
                       IN  forEachPosition(E2, Tail(todo), prices, t, depth)
                  ELSE forEachPosition(E, Tail(todo), prices, t, depth)

\* The loop as an index walk over an array: after an exit has removed the
\* entry being visited, the next entry is passed over.
forEachPosition_SkipAfterExit(E, todo, prices, t, depth) ==
    IF todo = <<>> THEN E
    ELSE LET r == Head(todo)
         IN  IF r \notin Range(E.live) THEN forEachPosition(E, Tail(todo), prices, t, depth)
             ELSE IF prices[E.objs[r].symbol] # 0
                  THEN LET E1 == updatePosition(E, r, prices[E.objs[r].symbol], t)
                           E2 == checkExitConditions(E1, r, prices, t, depth)
                           rest == IF r \in Range(E2.live) \/ Tail(todo) = <<>>
                                   THEN Tail(todo) ELSE Tail(Tail(todo))
                       IN  forEachPosition(E2, rest, prices, t, depth)
                  ELSE forEachPosition(E, Tail(todo), prices, t, depth)

\* positions.forEach: entries deleted before they are visited are skipped.
forEachPosition(E, todo, prices, t, depth) ==
    IF todo = <<>> THEN E
    ELSE LET r == Head(todo)
         IN  IF r \notin Range(E.live) THEN forEachPosition(E, Tail(todo), prices, t, depth)
             ELSE IF prices[E.objs[r].symbol] # 0
                  THEN LET E1 == updatePosition(E, r, prices[E.objs[r].symbol], t)
                           E2 == checkExitConditions(E1, r, prices, t, depth)
                       IN  forEachPosition(E2, Tail(todo), prices, t, depth)
                  ELSE forEachPosition(E, Tail(todo), prices, t, depth)

updatePositionsOp(E, prices, t, depth) == forEachPosition(E, E.live, prices, t, depth)

\* The dashboard's callback reporting only the exits that made a profit
forEachCallback_SkipLosses(E, cbs, r, reason, prices, t, depth) ==
    IF cbs = <<>> THEN E
    ELSE LET cb == Head(cbs)
             p == E.objs[r]
             E1 == [E EXCEPT !.cbLog = Append(@, [uid |-> p.uid, cb |-> cb,
                                                 pnl |-> p.unrealizedPnL])]
             E2 == IF cb = "reward" /\ p.unrealizedPnL > 0
                   THEN LET ap == updateReward(<<E1.arms, E1.perf>>, p.originalSignal,
                                               p.unrealizedPnL)
                        IN  [E1 EXCEPT !.arms = ap[1], !.perf = ap[2]]
                   ELSE E1
         IN  forEachCallback(E2, Tail(cbs), r, reason, prices, t, depth)

\* The loop without the try/catch around each callback: an exception ends it.
forEachCallback_StopAtThrow(E, cbs, r, reason, prices, t, depth) ==
    IF cbs = <<>> THEN E
    ELSE LET cb == Head(cbs)
             p == E.objs[r]
             E1 == [E EXCEPT !.cbLog = Append(@, [uid |-> p.uid, cb |-> cb,
                                                 pnl |-> p.unrealizedPnL])]
             E2 == IF cb = "reward"
                   THEN LET ap == updateReward(<<E1.arms, E1.perf>>, p.originalSignal,
                                               p.unrealizedPnL)
                        IN  [E1 EXCEPT !.arms = ap[1], !.perf = ap[2]]
                   ELSE IF depth < MaxReentry
                        THEN updatePositionsOp(E1, IF cb = Repricing THEN RepricePrices
                                                                      ELSE prices,
                                               t, depth + 1)
                        ELSE E1
         IN  IF cb = Throwing THEN E1
             ELSE forEachCallback(E2, Tail(cbs), r, reason, prices, t, depth)

forEachCallback(E, cbs, r, reason, prices, t, depth) ==
    IF cbs = <<>> THEN E
    ELSE LET cb == Head(cbs)
             p == E.objs[r]
             E1 == [E EXCEPT !.cbLog = Append(@, [uid |-> p.uid, cb |-> cb,
                                                 pnl |-> p.unrealizedPnL])]
             E2 == IF cb = Throwing THEN E1
                   ELSE IF cb = "reward"
                   THEN LET ap == updateReward(<<E1.arms, E1.perf>>, p.originalSignal,
                                               p.unrealizedPnL)
                        IN  [E1 EXCEPT !.arms = ap[1], !.perf = ap[2]]
                   ELSE IF depth < MaxReentry
                        THEN updatePositionsOp(E1, IF cb = Repricing THEN RepricePrices
                                                                      ELSE prices,
                                               t, depth + 1)
                        ELSE E1
         IN  forEachCallback(E2, Tail(cbs), r, reason, prices, t, depth)

----------------------------------------------------------------------------
(* State after construction *)

StartTime == 1000 * 1000 * 1000

EmptyMap == [k \in {} |-> 0]

InitWith(overrides, callbacks) ==
    /\ now = StartTime
    /\ config = Construct(overrides)
    /\ positions = <<>>
    /\ priceHistory = [s \in Symbols |-> <<>>]
    /\ signalIdMap = EmptyMap
    /\ exitCallbacks = callbacks
    /\ banditArms = initializeBandits
    /\ performance = [s \in StrategyIds |-> <<>>]
    /\ recentSignals = <<>>
    /\ lastSignalTime = EmptyMap
    /\ orchConfig = OrchDefaults
    /\ running = <<>>
    /\ inflight = <<>>
    /\ accepted = <<>>
    /\ failed = {}
    /\ closeLog = <<>>
    /\ cbLog = <<>>
    /\ lastResult = <<"none">>
    /\ nextUid = 1
    /\ nextSerial = 1
    /\ tick = 0
    /\ nUpdates = 0
    /\ fePriceHistory = EmptyMap
    /\ feVolumeHistory = EmptyMap
    /\ feOrderBookHistory = EmptyMap
    /\ feResult = "none"
    /\ feCalls = 0
    /\ feCleanups = 0
    /\ lastRegime = <<>>
    /\ pending = <<>>
    /\ failures = 0
    /\ twin = [positions |-> <<>>, priceHistory |-> [s \in Symbols |-> <<>>],
               signalIdMap |-> EmptyMap, banditArms |-> initializeBandits,
               performance |-> [s \in StrategyIds |-> <<>>], closeLog |-> <<>>,
               cbLog |-> <<>>, lastResult |-> <<"none">>, nextUid |-> 1,
               regime |-> <<>>]
    /\ selections = <<>>

----------------------------------------------------------------------------
(* ProfitLockingEngine: public operations *)

LiveCount(ps, symbol) == Cardinality({i \in DOMAIN ps : ps[i].symbol = symbol})

newPosition(signal, size, cfg, ph, t, uid) ==
    LET method == selectProfitLockMethod(signal)
        mcfg == defaultConfigs(cfg)[method]
        atrValue == calculateATR(ph, cfg, signal.symbol)
    IN  [uid |-> uid,
         id |-> <<signal.symbol, t>>,
         symbol |-> signal.symbol,
         side |-> IF signal.action = "buy" THEN "long" ELSE "short",
         size |-> size,
         entryPrice |-> signal.price,
         currentPrice |-> signal.price,
         unrealizedPnL |-> 0,
         unrealizedPnLPct |-> 0,
         trailingStopPrice |-> calculateInitialStopPrice(signal, cfg),
         takeProfitPrice |-> calculateTakeProfitPrice(signal, mcfg, atrValue),
         profitLockMethod |-> method,
         timeHeld |-> <<0>>,
         entryTime |-> t,
         edgeDecayScore |-> 10000,
         maxDrawdownFromPeak |-> <<0, 1>>,
         peakPnL |-> 0,
         atrValue |-> atrValue,
         originalSignal |-> signal]

\* Map.set: a present key keeps its place and gets the new value.
MapSet(ps, p) ==
    IF \E i \in DOMAIN ps : ps[i].id = p.id
    THEN [i \in DOMAIN ps |-> IF ps[i].id = p.id THEN p ELSE ps[i]]
    ELSE Append(ps, p)

addPosition_NoSymbolCap(ps, cfg, signal) ==
    Len(ps) >= cfg.maxPositions

addPosition_NoGlobalCap(ps, cfg, signal) ==
    LiveCount(ps, signal.symbol) >= 3

\* The two capacity checks of addPosition: TRUE when the call is refused.
addPositionRefused(ps, cfg, signal) ==
    \/ Len(ps) >= cfg.maxPositions
    \/ LiveCount(ps, signal.symbol) >= 3

\* this.defaultConfigs[method] is undefined for a method that is none of
\* the six: calculateTakeProfitPrice reads config.atrMultiplier and throws.
addPositionThrows(signal) == selectProfitLockMethod(signal) \notin MethodNames

AddPosition(signal, size, signalId) ==
    /\ IF addPositionRefused(positions, config, signal)
       THEN /\ lastResult' = Rejected
            /\ UNCHANGED <<positions, signalIdMap, nextUid>>
       ELSE IF addPositionThrows(signal)
       THEN /\ lastResult' = Thrown
            /\ UNCHANGED <<positions, signalIdMap, nextUid>>
       ELSE LET p == newPosition(signal, size, config, priceHistory, now, nextUid)
            IN  /\ positions' = MapSet(positions, p)
                /\ signalIdMap' = IF signalId # NoSignalId
                                  THEN [k \in DOMAIN signalIdMap \cup {p.id} |->
                                           IF k = p.id THEN signalId ELSE signalIdMap[k]]
                                  ELSE signalIdMap
                /\ lastResult' = p.id
                /\ nextUid' = nextUid + 1
    /\ UNCHANGED <<now, config, priceHistory, exitCallbacks, banditArms, performance,
                   closeLog, cbLog>>

\* A caller outside the trading cycle builds a signal and opens a position.
AddPositionCall(symbol, action, strategy, price, size, withId) ==
    /\ AddPosition([symbol |-> symbol, action |-> action, confidence |-> 8000,
                    strategy |-> strategy, price |-> price, timestamp |-> now,
                    serial |-> nextSerial],
                   size, IF withId THEN nextSerial ELSE NoSignalId)
    /\ nextSerial' = nextSerial + 1
    /\ UNCHANGED <<recentSignals, lastSignalTime, orchConfig, running, inflight,
                   accepted, failed, tick, nUpdates>>
    /\ UNCHANGED <<featVars, persistVars, selections>>

EngineOf(ps) ==
    [objs |-> ps, live |-> [i \in DOMAIN ps |-> i], ph |-> priceHistory,
     sid |-> signalIdMap, cfg |-> config, cbs |-> exitCallbacks,
     closeLog |-> closeLog, cbLog |-> cbLog, arms |-> banditArms,
     perf |-> performance, trace |-> <<>>]

UpdatePositions(prices) ==
    LET E == updatePositionsOp(EngineOf(positions), prices, now, 0)
    IN  /\ positions' = [i \in DOMAIN E.live |-> E.objs[E.live[i]]]
        /\ priceHistory' = E.ph
        /\ signalIdMap' = E.sid
        /\ closeLog' = E.closeLog
        /\ cbLog' = E.cbLog
        /\ banditArms' = E.arms
        /\ performance' = E.perf
        /\ UNCHANGED <<now, config, exitCallbacks, lastResult, nextUid>>

UpdatePositionsCall(prices) ==
    /\ UpdatePositions(prices)
    /\ nUpdates' = nUpdates + 1
    /\ UNCHANGED <<orchVars, tick>>
    /\ UNCHANGED <<featVars, persistVars, selections>>

RemovePosition(id) ==
    /\ positions' = SelectSeq(positions, LAMBDA p : p.id # id)
    /\ signalIdMap' = [k \in (DOMAIN signalIdMap) \ {id} |-> signalIdMap[k]]
    /\ UNCHANGED <<now, config, priceHistory, exitCallbacks, banditArms, performance,
                   closeLog, cbLog, lastResult, nextUid>>
    /\ UNCHANGED <<orchVars, tick, nUpdates>>
    /\ UNCHANGED <<featVars, persistVars, selections>>

OnPositionExit(cb) ==
    /\ exitCallbacks' = IF cb \in Range(exitCallbacks) THEN exitCallbacks
                        ELSE Append(exitCallbacks, cb)
    /\ UNCHANGED <<now, config, positions, priceHistory, signalIdMap, banditArms,
                   performance, closeLog, cbLog, lastResult, nextUid>>
    /\ UNCHANGED <<orchVars, tick, nUpdates>>
    /\ UNCHANGED <<featVars, persistVars, selections>>

\* The clock advances through a schedule of steps: 5 s, 65 s, then days.
ClockStep(k) ==
    CASE k = 0 -> 5000
      [] k = 1 -> 65000
      [] OTHER -> 24 * 3600000

AdvanceClock ==
    /\ now' = now + ClockStep(tick)
    /\ tick' = tick + 1
    /\ UNCHANGED <<config, positions, priceHistory, signalIdMap, exitCallbacks,
                   banditArms, performance, closeLog, cbLog, lastResult, nextUid>>
    /\ UNCHANGED <<orchVars, nUpdates>>
    /\ UNCHANGED <<featVars, persistVars, selections>>

----------------------------------------------------------------------------
(* FeatureEngine: the per-symbol history buffers.  F is the triple of     *)
(* buffers during one call: p prices, v volumes, b order books, and threw  *)
(* once a statement of the call has raised a TypeError.                   *)

\* FeatureEngine.maxHistoryLength
MaxHistoryLength == 200

MapPut(m, k, v) == [x \in DOMAIN m \cup {k} |-> IF x = k THEN v ELSE m[x]]

MapDrop(m, ks) == [x \in (DOMAIN m) \ ks |-> m[x]]

\* push, then shift when the buffer got longer than the cap
PushCapped(buf, x) ==
    LET pushed == Append(buf, x)
    IN  IF Len(pushed) > MaxHistoryLength THEN Tail(pushed) ELSE pushed

\* The body of the forEach over marketData.tickers, for one symbol
updateTicker_NoShift(F, symbol, ticker) ==
    LET F0 == IF symbol \notin DOMAIN F.p
              THEN [F EXCEPT !.p = MapPut(@, symbol, <<>>),
                             !.v = MapPut(@, symbol, <<>>),
                             !.b = MapPut(@, symbol, <<>>)]
              ELSE F
        p1 == Append(F0.p[symbol], ticker.price)
        v1 == Append(F0.v[symbol], ticker.volume)
    IN  [F0 EXCEPT !.p = MapPut(@, symbol, p1), !.v = MapPut(@, symbol, v1)]

updateTicker(F, symbol, ticker) ==
    LET F0 == IF symbol \notin DOMAIN F.p
              THEN [F EXCEPT !.p = MapPut(@, symbol, <<>>),
                             !.v = MapPut(@, symbol, <<>>),
                             !.b = MapPut(@, symbol, <<>>)]
              ELSE F
        p1 == Append(F0.p[symbol], ticker.price)
        v1 == Append(F0.v[symbol], ticker.volume)
        over == Len(p1) > MaxHistoryLength
    IN  [F0 EXCEPT !.p = MapPut(@, symbol, IF over THEN Tail(p1) ELSE p1),
                   !.v = MapPut(@, symbol, IF over THEN Tail(v1) ELSE v1)]

\* The body of the forEach over marketData.orderBooks, for one symbol:
\* push on an undefined buffer raises a TypeError.
updateOrderBook(F, symbol, orderBook) ==
    IF symbol \notin DOMAIN F.b
    THEN [F EXCEPT !.threw = TRUE]
    ELSE [F EXCEPT !.b = MapPut(@, symbol, PushCapped(F.b[symbol], orderBook))]

RECURSIVE forEachTicker(_, _, _)
forEachTicker(F, symbols, tickers) ==
    IF symbols = <<>> THEN F
    ELSE forEachTicker(updateTicker(F, Head(symbols), tickers[Head(symbols)]),
                       Tail(symbols), tickers)

RECURSIVE forEachOrderBook(_, _, _)
forEachOrderBook(F, symbols, orderBooks) ==
    IF symbols = <<>> \/ F.threw THEN F
    ELSE forEachOrderBook(updateOrderBook(F, Head(symbols), orderBooks[Head(symbols)]),
                          Tail(symbols), orderBooks)

\* Object.keys of a record keyed by symbol
KeysOf(m) == SelectSeq(<<"BTCUSDT", "ETHUSDT">>, LAMBDA s : s \in DOMAIN m)

updateData(F, tickers, orderBooks) ==
    forEachOrderBook(forEachTicker(F, KeysOf(tickers), tickers),
                     KeysOf(orderBooks), orderBooks)

\* The clean-up without the delete of the order-book buffer
cleanupOldSymbols_KeepBooks(F, activeSymbols) ==
    LET symbolsToRemove == (DOMAIN F.p) \ activeSymbols
    IN  [F EXCEPT !.p = MapDrop(@, symbolsToRemove),
                  !.v = MapDrop(@, symbolsToRemove)]

cleanupOldSymbols(F, activeSymbols) ==
    LET symbolsToRemove == (DOMAIN F.p) \ activeSymbols
    IN  [F EXCEPT !.p = MapDrop(@, symbolsToRemove),
                  !.v = MapDrop(@, symbolsToRemove),
                  !.b = MapDrop(@, symbolsToRemove)]

\* extractFeatures returns null
extractFeaturesIsNull_AtTen(ph, symbol) ==
    symbol \notin DOMAIN ph \/ Len(ph[symbol]) <= 10

extractFeaturesIsNull(ph, symbol) ==
    symbol \notin DOMAIN ph \/ Len(ph[symbol]) < 10

getSupportedSymbols(ph) == {symbol \in DOMAIN ph : Len(ph[symbol]) >= 10}

RECURSIVE SumSeq(_)
SumSeq(s) == IF s = <<>> THEN 0 ELSE Head(s) + SumSeq(Tail(s))

RECURSIVE IsqrtIn(_, _, _)
IsqrtIn(v, lo, hi) ==
    IF lo >= hi THEN lo
    ELSE LET mid == (lo + hi + 1) \div 2
         IN  IF mid * mid <= v THEN IsqrtIn(v, mid, hi) ELSE IsqrtIn(v, lo, mid - 1)

\* Math.sqrt, rounded down
Isqrt(v) == IsqrtIn(v, 0, Min(v, 46340))

\* The returns of a price series in thousandths, rounded down; a step from a
\* price that is not positive is left out.
calculateReturns(prices) ==
    LET steps == SelectSeq([k \in 1..(Len(prices) - 1) |-> k + 1],
                           LAMBDA i : prices[i - 1] > 0)
    IN  [k \in DOMAIN steps |->
            ((prices[steps[k]] - prices[steps[k] - 1]) * 1000)
                \div prices[steps[k] - 1]]

\* The population standard deviation, in the unit of the values
standardDeviation(values) ==
    IF values = <<>> THEN 0
    ELSE LET n == Len(values)
             mean == SumSeq(values) \div n
             squares == [k \in DOMAIN values |-> (values[k] - mean) * (values[k] - mean)]
         IN  Isqrt(SumSeq(squares) \div n)

\* The standard deviation of the returns, in basis points
calculateVolatility(ph, symbol) ==
    IF symbol \notin DOMAIN ph \/ Len(ph[symbol]) < 2 THEN 0
    ELSE 10 * standardDeviation(calculateReturns(ph[symbol]))

\* (recentAvg - olderAvg) / olderAvg over the last four prices, in basis points
calculateMomentum(ph, symbol) ==
    IF symbol \notin DOMAIN ph \/ Len(ph[symbol]) < 4 THEN 0
    ELSE LET prices == ph[symbol]
             n == Len(prices)
             recent == prices[n - 1] + prices[n]
             older == prices[n - 3] + prices[n - 2]
         IN  IF older > 0 THEN ((recent - older) * 10000) \div older ELSE 0

\* min(2 * |currentPrice - mean| / mean, 1), in basis points
calculateMeanReversion(ph, symbol) ==
    IF symbol \notin DOMAIN ph \/ Len(ph[symbol]) < 3 THEN 0
    ELSE LET prices == ph[symbol]
             n == Len(prices)
             total == SumSeq(prices)
         IN  Min((Abs(prices[n] * n - total) * 20000) \div total, 10000)

\* The regression slope of the last 20 prices over their average, in basis
\* points
calculateTrend(ph, symbol) ==
    IF symbol \notin DOMAIN ph \/ Len(ph[symbol]) < 10 THEN 0
    ELSE LET prices == ph[symbol]
             n == Min(Len(prices), 20)
             recentPrices == SubSeq(prices, Len(prices) - n + 1, Len(prices))
             sumX == SumSeq([i \in 1..n |-> i - 1])
             sumY == SumSeq(recentPrices)
             sumXY == SumSeq([i \in 1..n |-> (i - 1) * recentPrices[i]])
             sumXX == SumSeq([i \in 1..n |-> (i - 1) * (i - 1)])
             slope == ((n * sumXY - sumX * sumY) * 1000) \div (n * sumXX - sumX * sumX)
         IN  IF sumY > 0 THEN (slope * 10 * n) \div sumY ELSE 0

\* extractFeatures: <<>> for null, else the features computed from the price
\* buffer (those computed from volumes and order books do not enter
\* detectRegime).
extractFeatures(ph, symbol) ==
    IF extractFeaturesIsNull(ph, symbol) THEN <<>>
    ELSE <<[volatility |-> calculateVolatility(ph, symbol),
            momentum |-> calculateMomentum(ph, symbol),
            meanReversion |-> calculateMeanReversion(ph, symbol),
            trend |-> calculateTrend(ph, symbol)]>>

FeatureState ==
    [p |-> fePriceHistory, v |-> feVolumeHistory, b |-> feOrderBookHistory,
     threw |-> FALSE]

UpdateDataCall(tickers, orderBooks) ==
    /\ LET F == updateData(FeatureState, tickers, orderBooks)
       IN  /\ fePriceHistory' = F.p
           /\ feVolumeHistory' = F.v
           /\ feOrderBookHistory' = F.b
           /\ feResult' = IF F.threw THEN "TypeError" ELSE "ok"
    /\ feCalls' = feCalls + 1
    /\ UNCHANGED feCleanups
    /\ UNCHANGED <<now, engineVars, banditArms, performance, orchVars, tick, nUpdates>>
    /\ UNCHANGED <<persistVars, selections>>

CleanupOldSymbolsCall(activeSymbols) ==
    /\ LET F == cleanupOldSymbols(FeatureState, activeSymbols)
       IN  /\ fePriceHistory' = F.p
           /\ feVolumeHistory' = F.v
           /\ feOrderBookHistory' = F.b
    /\ feResult' = "ok"
    /\ feCleanups' = feCleanups + 1
    /\ UNCHANGED feCalls
    /\ UNCHANGED <<now, engineVars, banditArms, performance, orchVars, tick, nUpdates>>
    /\ UNCHANGED <<persistVars, selections>>

----------------------------------------------------------------------------
(* TradingDashboard: the trading cycle.  A cycle runs without interruption *)
(* from the tick that starts it, or from the settling of the saveSignal    *)
(* it awaits, to its next saveSignal or its end; while one runs (running   *)
(* is not empty) nothing else happens.  The FeatureEngine is represented   *)
(* by what extractFeatures returns to the cycle: null while a symbol has   *)
(* fewer than 10 prices, a FeatureSet afterwards.                          *)

\* stats.totalEquity as the subscribed handler sees it
TotalEquity == 10000

SymbolOrder == <<"BTCUSDT", "ETHUSDT">>

\* Object.keys(data.tickers)
tickersOf(data) == SelectSeq(SymbolOrder, LAMBDA s : data[s] > 0)

\* positionValue / signal.price, in whole coins
calculatePositionSize(signal, cfg) ==
    (((TotalEquity * cfg.riskPerTrade) \div 10000) * Scale) \div signal.price

\* The for-loop of runTradingCycleWithData moves on to the remaining symbols.
ContinueCycle(rest, data) ==
    IF rest = <<>> THEN <<>> ELSE <<[rest |-> rest, data |-> data]>>

RemoveAt(s, i) == SubSeq(s, 1, i - 1) \o SubSeq(s, i + 1, Len(s))

HandleMarketDataUpdate(data) ==
    /\ running = <<>>
    /\ UpdatePositions(data)
    /\ running' = ContinueCycle(tickersOf(data), data)
    /\ nUpdates' = nUpdates + 1
    /\ UNCHANGED <<recentSignals, lastSignalTime, orchConfig, inflight, accepted,
                   failed, nextSerial, tick>>
    /\ UNCHANGED <<featVars, persistVars, selections>>

\* extractFeatures (or detectRegime) returns null: the cycle returns.
CycleInsufficientData ==
    /\ running # <<>>
    /\ running' = <<>>
    /\ UNCHANGED <<now, engineVars, banditArms, performance, recentSignals,
                   lastSignalTime, orchConfig, inflight, accepted, failed,
                   nextSerial, tick, nUpdates>>
    /\ UNCHANGED <<featVars, persistVars, selections>>

\* The cycle calls generateSignal for its next symbol.
CycleGenerate(features, strategy) ==
    /\ running # <<>>
    /\ LET cycle == running[1]
           symbol == Head(cycle.rest)
           call == [symbol |-> symbol, price |-> cycle.data[symbol],
                    features |-> features, regime |-> detectRegime(features)]
           g == generateSignalStart(recentSignals, lastSignalTime, orchConfig, call,
                                    strategy, now, nextSerial)
       IN  IF g.kind = "save"
           THEN /\ inflight' = Append(inflight, [signal |-> g.signal,
                                                 rest |-> Tail(cycle.rest),
                                                 data |-> cycle.data])
                /\ running' = <<>>
                /\ nextSerial' = nextSerial + 1
           ELSE /\ running' = ContinueCycle(Tail(cycle.rest), cycle.data)
                /\ UNCHANGED <<inflight, nextSerial>>
    /\ UNCHANGED <<now, engineVars, banditArms, performance, recentSignals,
                   lastSignalTime, orchConfig, accepted, failed, tick, nUpdates>>
    /\ UNCHANGED <<featVars, persistVars, selections>>

\* saveSignal settles for the i-th suspended cycle: generateSignal finishes
\* and the cycle acts on what it returns.
SaveSignalSettles(i, ok) ==
    /\ running = <<>>
    /\ i \in DOMAIN inflight
    /\ LET cycle == inflight[i]
           signal == cycle.signal
           signalId == IF ok THEN signal.serial ELSE NoSignalId
           g == generateSignalResume(recentSignals, lastSignalTime, signal, signalId, now)
       IN  /\ recentSignals' = g.recent
           /\ lastSignalTime' = g.last
           /\ inflight' = RemoveAt(inflight, i)
           /\ accepted' = IF g.result # <<>>
                          THEN Append(accepted, [signal |-> signal, at |-> now])
                          ELSE accepted
           /\ failed' = IF signalId = NoSignalId THEN failed \cup {signal.serial}
                        ELSE failed
           /\ IF g.result # <<>> /\ g.result[1].signal.confidence > 7000
              THEN IF LiveCount(positions, signal.symbol) >= 2
                   THEN /\ running' = <<>>
                        /\ UNCHANGED <<now, engineVars, banditArms, performance>>
                   ELSE /\ AddPosition(g.result[1].signal,
                                       calculatePositionSize(signal, config),
                                       g.result[1].signalId)
                        /\ running' = ContinueCycle(cycle.rest, cycle.data)
              ELSE /\ running' = ContinueCycle(cycle.rest, cycle.data)
                   /\ UNCHANGED <<now, engineVars, banditArms, performance>>
    /\ UNCHANGED <<orchConfig, nextSerial, tick, nUpdates>>
    /\ UNCHANGED <<featVars, persistVars, selections>>

\* { ...this.config, ...newConfig }
mergeConfig(cfg, newConfig) ==
    [k \in DOMAIN cfg \cup DOMAIN newConfig |->
        IF k \in DOMAIN newConfig THEN newConfig[k] ELSE cfg[k]]

\* AIOrchestrator.updateConfig, called between two events of the page
OrchestratorUpdateConfig(newConfig) ==
    /\ running = <<>>
    /\ orchConfig' = mergeConfig(orchConfig, newConfig)
    /\ UNCHANGED <<now, engineVars, banditArms, performance, recentSignals,
                   lastSignalTime, running, inflight, accepted, failed,
                   nextSerial, tick, nUpdates>>
    /\ UNCHANGED <<featVars, persistVars, selections>>

\* ProfitLockingEngine.updateConfig
EngineUpdateConfig(newConfig) ==
    /\ config' = mergeConfig(config, newConfig)
    /\ UNCHANGED <<now, positions, priceHistory, signalIdMap, exitCallbacks, closeLog,
                   cbLog, lastResult, nextUid, banditArms, performance>>
    /\ UNCHANGED <<orchVars, tick, nUpdates>>
    /\ UNCHANGED <<featVars, persistVars, selections>>

\* Time passes between two events of the page.
TimePasses ==
    /\ running = <<>>
    /\ AdvanceClock

RECURSIVE SumTrials(_, _)
SumTrials(arms, ids) ==
    IF ids = {} THEN 0
    ELSE LET id == CHOOSE x \in ids : TRUE
         IN  arms[id].trials + SumTrials(arms, ids \ {id})

\* A position exit, or any other caller, reports the profit of a signal.
UpdateRewardCall(strategy, profit) ==
    /\ LET ap == updateReward(<<banditArms, performance>>, [strategy |-> strategy], profit)
       IN  /\ banditArms' = ap[1]
           /\ performance' = ap[2]
    /\ UNCHANGED <<now, engineVars, orchVars, tick, nUpdates>>
    /\ UNCHANGED <<featVars, persistVars, selections>>

----------------------------------------------------------------------------
(* AIOrchestrator: Thompson sampling.  Math.random is a stream of draws in *)
(* basis points and a call reads it from position 1 on.  The draws are on  *)
(* a grid on which the samplers accept their first candidate: u1 =         *)
(* exp(-1/2) gives the Box-Muller radius 1, u2 in {0, 1/4, 1/2} the cosine *)
(* 1, 0, -1, and u = 1/2 passes the squeeze test.  Samples are in          *)
(* thousandths, Beta samples in basis points.                              *)

\* The insertion order of banditArms
StrategyOrder ==
    <<"trend_following", "swing_trading", "momentum", "mean_reversion", "breakout",
      "scalping", "statistical_arbitrage", "contextual_bandits">>

\* sqrt(-2 ln u1) * cos(2 pi u2), in thousandths
normalSample(draws, at) ==
    CASE draws[at] = 6065 /\ draws[at + 1] = 0 -> 1000
      [] draws[at] = 6065 /\ draws[at + 1] = 2500 -> 0
      [] draws[at] = 6065 /\ draws[at + 1] = 5000 -> -1000

\* Marsaglia-Tsang for shape >= 1: the candidate with v > 0 that passes
\* u < 1 - 0.0331 x^4 is returned as d * v.
gammaSample(shape, draws, at) ==
    LET d == 1000 * shape - 333
        c == 1000000 \div Isqrt(9 * d * 1000)
        x == normalSample(draws, at)
        v1 == 1000 + (c * x) \div 1000
        v == (((v1 * v1) \div 1000) * v1) \div 1000
        u == draws[at + 2]
        x2 == (x * x) \div 1000
        x4 == (x2 * x2) \div 1000
    IN  CASE v1 > 0 /\ u < 10000 - (331 * x4) \div 1000 ->
                 [value |-> (d * v) \div 1000, next |-> at + 3]

\* gamma1 / (gamma1 + gamma2)
betaSample(alpha, beta, draws, at) ==
    LET gamma1 == gammaSample(alpha, draws, at)
        gamma2 == gammaSample(beta, draws, gamma1.next)
    IN  [value |-> (gamma1.value * 10000) \div (gamma1.value + gamma2.value),
         next |-> gamma2.next]

\* In hundredths
getContextAdjustment(strategyId, features, regime) ==
    CASE strategyId = "trend_following" -> IF regime.type = "trending" THEN 150 ELSE 80
      [] strategyId = "momentum" -> IF features.volatility > 5000 THEN 130 ELSE 90
      [] strategyId = "mean_reversion" -> IF regime.type = "ranging" THEN 140 ELSE 70
      [] strategyId = "breakout" -> IF features.volatility > 6000 THEN 160 ELSE 60
      [] strategyId = "scalping" -> IF features.liquidity > 7000 THEN 140 ELSE 50
      [] strategyId = "swing_trading" -> IF regime.type = "ranging" THEN 130 ELSE 80
      [] strategyId = "statistical_arbitrage" ->
             IF Abs(features.correlation) > 6000 THEN 120 ELSE 90
      [] strategyId = "contextual_bandits" -> 100
      [] OTHER -> 100

\* banditArms.forEach: one adjusted sample per arm, in insertion order
RECURSIVE sampleArms(_, _, _, _, _, _)
sampleArms(arms, order, features, regime, draws, at) ==
    IF order = <<>> THEN [samples |-> <<>>, next |-> at]
    ELSE LET strategyId == Head(order)
             sample == betaSample(arms[strategyId].alpha, arms[strategyId].beta,
                                  draws, at)
             adjusted == sample.value
                         * getContextAdjustment(strategyId, features, regime)
             rest == sampleArms(arms, Tail(order), features, regime, draws,
                                sample.next)
         IN  [samples |-> <<[strategyId |-> strategyId, sample |-> adjusted]>>
                          \o rest.samples,
              next |-> rest.next]

\* samples.sort((a, b) => b.sample - a.sample): descending and stable
RECURSIVE sortBySample(_)
sortBySample(samples) ==
    IF samples = <<>> THEN <<>>
    ELSE LET n == Len(samples)
             last == samples[n]
             front == sortBySample(SubSeq(samples, 1, n - 1))
             ahead == SelectSeq(front, LAMBDA e : e.sample >= last.sample)
             behind == SelectSeq(front, LAMBDA e : e.sample < last.sample)
         IN  ahead \o <<last>> \o behind

\* The arm picked from the clock instead of the draws
selectStrategyOn_Clock(arms, features, regime, cfg, draws) ==
    LET order == SelectSeq(StrategyOrder, LAMBDA id : id \in DOMAIN arms)
        sampled == sampleArms(arms, order, features, regime, draws, 1)
        samples == sortBySample(sampled.samples)
    IN  IF (now \div 5000) % 2 = 1
        THEN samples[Len(samples)].strategyId
        ELSE samples[1].strategyId

\* selectStrategy on a stream of draws
selectStrategyOn(arms, features, regime, cfg, draws) ==
    LET order == SelectSeq(StrategyOrder, LAMBDA id : id \in DOMAIN arms)
        sampled == sampleArms(arms, order, features, regime, draws, 1)
        samples == sortBySample(sampled.samples)
    IN  IF draws[sampled.next] < cfg.explorationRate
        THEN samples[((draws[sampled.next + 1] * Len(samples)) \div 10000) + 1].strategyId
        ELSE samples[1].strategyId

\* A call of selectStrategy: nothing of the orchestrator changes.
SelectStrategyCall(features, regime, draws) ==
    /\ selections' = Append(selections,
           [arms |-> banditArms, features |-> features, regime |-> regime,
            cfg |-> orchConfig, draws |-> draws, at |-> now,
            result |-> selectStrategyOn(banditArms, features, regime, orchConfig,
                                        draws)])
    /\ UNCHANGED <<now, engineVars, banditArms, performance, orchVars, tick, nUpdates>>
    /\ UNCHANGED <<featVars, persistVars>>

----------------------------------------------------------------------------
(* Fire-and-forget persistence: saveMarketFeatures, savePosition,          *)
(* updatePosition, closePosition and updateStrategyPerformance are called  *)
(* without await; each call settles later, with success or with failure.   *)
(* The same ticks and signals are fed to two runs: the one of the engine   *)
(* variables, whose calls settle at any time with any outcome, and the     *)
(* twin, whose calls all succeed at once.                                  *)

\* The in-memory state and the last results of the operations
Memory ==
    [positions |-> positions, priceHistory |-> priceHistory,
     signalIdMap |-> signalIdMap, banditArms |-> banditArms,
     performance |-> performance, closeLog |-> closeLog, cbLog |-> cbLog,
     lastResult |-> lastResult, nextUid |-> nextUid, regime |-> lastRegime]

SetMemory(M) ==
    /\ positions' = M.positions
    /\ priceHistory' = M.priceHistory
    /\ signalIdMap' = M.signalIdMap
    /\ banditArms' = M.banditArms
    /\ performance' = M.performance
    /\ closeLog' = M.closeLog
    /\ cbLog' = M.cbLog
    /\ lastResult' = M.lastResult
    /\ nextUid' = M.nextUid
    /\ lastRegime' = M.regime

PersistCall(kind, key) == [kind |-> kind, key |-> key]

\* A failed savePosition takes the position out of the live set again.
settlePersistence_Rollback(M, call, ok) ==
    IF ~ ok /\ call.kind = "savePosition"
    THEN [M EXCEPT !.positions = SelectSeq(@, LAMBDA p : p.uid # call.key)]
    ELSE M

\* What the settling of a call does in memory: the callers keep nothing of
\* the promise but .catch(console.error), or nothing at all (savePosition).
settlePersistence(M, call, ok) == M

RECURSIVE settleAll(_, _)
settleAll(M, calls) ==
    IF calls = <<>> THEN M
    ELSE settleAll(settlePersistence(M, Head(calls), TRUE), Tail(calls))

\* detectRegime on what extractFeatures returns: <<>> for null, else <<features>>
detectRegimeMem(M, features) ==
    IF features = <<>>
    THEN [mem |-> [M EXCEPT !.regime = <<>>], issued |-> <<>>]
    ELSE [mem |-> [M EXCEPT !.regime = <<detectRegime(features[1])>>],
          issued |-> <<PersistCall("saveMarketFeatures", 0)>>]

addPositionMem(M, signal, size, signalId) ==
    IF addPositionRefused(M.positions, config, signal)
    THEN [mem |-> [M EXCEPT !.lastResult = Rejected], issued |-> <<>>]
    ELSE IF selectProfitLockMethod(signal) \notin MethodNames
    THEN [mem |-> [M EXCEPT !.lastResult = Thrown], issued |-> <<>>]
    ELSE LET p == newPosition(signal, size, config, M.priceHistory, now, M.nextUid)
             sid == IF signalId # NoSignalId
                    THEN [k \in DOMAIN M.signalIdMap \cup {p.id} |->
                             IF k = p.id THEN signalId ELSE M.signalIdMap[k]]
                    ELSE M.signalIdMap
         IN  [mem |-> [M EXCEPT !.positions = MapSet(@, p), !.signalIdMap = sid,
                                !.lastResult = p.id, !.nextUid = @ + 1],
              issued |-> IF signalId # NoSignalId
                         THEN <<PersistCall("savePosition", p.uid)>> ELSE <<>>]

\* updatePositions: an updatePosition call for every position with a price,
\* a closePosition call for every exit and an updateStrategyPerformance call
\* for every reward given to a known strategy.
updatePositionsMem(M, prices) ==
    LET ps == M.positions
        E0 == [objs |-> ps, live |-> [i \in DOMAIN ps |-> i], ph |-> M.priceHistory,
               sid |-> M.signalIdMap, cfg |-> config, cbs |-> exitCallbacks,
               closeLog |-> M.closeLog, cbLog |-> M.cbLog, arms |-> M.banditArms,
               perf |-> M.performance, trace |-> <<>>]
        E == updatePositionsOp(E0, prices, now, 0)
        updated == SelectSeq(ps, LAMBDA p : prices[p.symbol] # 0)
        closed == SubSeq(E.closeLog, Len(M.closeLog) + 1, Len(E.closeLog))
        rewarded == SelectSeq(SubSeq(E.cbLog, Len(M.cbLog) + 1, Len(E.cbLog)),
                              LAMBDA c : /\ c.cb = "reward"
                                         /\ \E i \in DOMAIN ps :
                                               /\ ps[i].uid = c.uid
                                               /\ ps[i].originalSignal.strategy
                                                     \in StrategyIds)
    IN  [mem |-> [M EXCEPT !.positions = [i \in DOMAIN E.live |-> E.objs[E.live[i]]],
                           !.priceHistory = E.ph, !.signalIdMap = E.sid,
                           !.closeLog = E.closeLog, !.cbLog = E.cbLog,
                           !.banditArms = E.arms, !.performance = E.perf],
         issued |-> [i \in DOMAIN updated |-> PersistCall("updatePosition", updated[i].uid)]
                    \o [i \in DOMAIN closed |-> PersistCall("closePosition", closed[i].uid)]
                    \o [i \in DOMAIN rewarded |->
                           PersistCall("updateStrategyPerformance", rewarded[i].uid)]]

\* One operation applied to both runs; A and B are its outcomes in each.
MemoryStep(A, B) ==
    /\ Len(pending) + Len(A.issued) <= MaxPendingPersist
    /\ SetMemory(A.mem)
    /\ pending' = pending \o A.issued
    /\ twin' = settleAll(B.mem, B.issued)
    /\ UNCHANGED <<now, config, exitCallbacks, failures, recentSignals,
                   lastSignalTime, orchConfig, running, inflight, accepted, failed,
                   tick>>
    /\ UNCHANGED <<featVars, selections>>

DetectRegimeCall(features) ==
    /\ MemoryStep(detectRegimeMem(Memory, features), detectRegimeMem(twin, features))
    /\ UNCHANGED <<nextSerial, nUpdates>>

PersistAddPosition(symbol, action, strategy, price, size) ==
    LET signal == [symbol |-> symbol, action |-> action, confidence |-> 8000,
                   strategy |-> strategy, price |-> price, timestamp |-> now,
                   serial |-> nextSerial]
    IN  /\ MemoryStep(addPositionMem(Memory, signal, size, nextSerial),
                      addPositionMem(twin, signal, size, nextSerial))
        /\ nextSerial' = nextSerial + 1
        /\ UNCHANGED nUpdates

PersistUpdatePositions(prices) ==
    /\ MemoryStep(updatePositionsMem(Memory, prices), updatePositionsMem(twin, prices))
    /\ nUpdates' = nUpdates + 1
    /\ UNCHANGED nextSerial

\* A persistence call of the first run settles, with success or failure.
PersistenceSettles(i, ok) ==
    /\ i \in DOMAIN pending
    /\ SetMemory(settlePersistence(Memory, pending[i], ok))
    /\ pending' = RemoveAt(pending, i)
    /\ failures' = IF ok THEN failures ELSE failures + 1
    /\ UNCHANGED <<now, config, exitCallbacks, twin, orchVars, tick, nUpdates>>
    /\ UNCHANGED <<featVars, selections>>

----------------------------------------------------------------------------
(* Inputs *)

\* Tick contents: the price of each symbol, 0 when the tick carries none.
PriceMaps ==
    {[BTCUSDT |-> 110 * Scale, ETHUSDT |-> 110 * Scale],
     [BTCUSDT |-> 95 * Scale, ETHUSDT |-> 95 * Scale],
     [BTCUSDT |-> 110 * Scale, ETHUSDT |-> 101 * Scale],
     [BTCUSDT |-> 0, ETHUSDT |-> 95 * Scale]}

PriceMapsTick ==
    {[BTCUSDT |-> 110 * Scale, ETHUSDT |-> 0],
     [BTCUSDT |-> 95 * Scale, ETHUSDT |-> 0],
     [BTCUSDT |-> 130 * Scale, ETHUSDT |-> 0]}

PriceMapsCap ==
    {[BTCUSDT |-> 95 * Scale, ETHUSDT |-> 95 * Scale]}

\* Signals handed to addPosition: <<symbol, action, strategy, price, size>>
SignalInputs ==
    {<<"BTCUSDT", "buy", "momentum", 100 * Scale, 1>>,
     <<"BTCUSDT", "sell", "statistical_arbitrage", 100 * Scale, 2>>,
     <<"ETHUSDT", "buy", "statistical_arbitrage", 100 * Scale, 1>>,
     <<"ETHUSDT", "sell", "momentum", 100 * Scale, 1>>}

SignalInputsTick ==
    {<<"BTCUSDT", "buy", "momentum", 100 * Scale, 1>>,
     <<"BTCUSDT", "sell", "swing_trading", 100 * Scale, 2>>}

SignalInputsCap ==
    {<<"BTCUSDT", "buy", "momentum", 100 * Scale, 1>>,
     <<"ETHUSDT", "sell", "momentum", 100 * Scale, 1>>}

Dashboard == <<"reward">>

\* Strategies named by the signals that are rewarded; the last one has no arm.
RewardStrategies == {"trend_following", "momentum", "manual"}

\* Profits reported, in 1/Scale currency units
RewardProfits == {5 * Scale, -5 * Scale, 0}

\* Market data of a tick of the trading cycle
PriceMapsOrch ==
    {[BTCUSDT |-> 100 * Scale, ETHUSDT |-> 0],
     [BTCUSDT |-> 50 * Scale, ETHUSDT |-> 100 * Scale]}

\* Market data of ticks that carry one symbol, at the entry price and below
\* the stop of a long position
PriceMapsReward ==
    {[BTCUSDT |-> 100 * Scale, ETHUSDT |-> 0],
     [BTCUSDT |-> 50 * Scale, ETHUSDT |-> 0]}

\* The entries of a tick are numbered by arrival: each carries the number
\* after the last one its buffer holds.
NextValue(m, symbol) ==
    IF symbol \in DOMAIN m /\ m[symbol] # <<>>
    THEN m[symbol][Len(m[symbol])] + 1
    ELSE 1

\* marketData.tickers with an entry for each symbol of S
TickersFor(S) ==
    [s \in S |-> [price |-> NextValue(fePriceHistory, s),
                  volume |-> NextValue(feVolumeHistory, s)]]

\* marketData.orderBooks with a snapshot for each symbol of S
OrderBooksFor(S) == [s \in S |-> NextValue(feOrderBookHistory, s)]

\* Ticks by the symbols of their tickers and of their order books
FeedKinds ==
    {<<{"BTCUSDT"}, {"BTCUSDT"}>>,
     <<{"BTCUSDT", "ETHUSDT"}, {}>>,
     <<{}, {"ETHUSDT"}>>}

\* The symbols a clean-up keeps
ActiveSets == {{"BTCUSDT"}, {}}

\* FeatureSets extractFeatures may return, in basis points
FeatureInputs ==
    {[vvix |-> 0, ofi |-> 0, vpin |-> 0, correlation |-> 0, liquidity |-> 8000,
      volatility |-> 1000, momentum |-> 10, meanReversion |-> 0, trend |-> 1000],
     [vvix |-> 0, ofi |-> 0, vpin |-> 0, correlation |-> 0, liquidity |-> 5000,
      volatility |-> 1000, momentum |-> 0, meanReversion |-> 0, trend |-> 0]}


----------------------------------------------------------------------------
(* Spec: the life of positions under ticks and exits, as the dashboard     *)
(* drives the engine (its reward callback is registered at start-up).      *)

Init == InitWith([maxPositions |-> 2, atrPeriod |-> AtrPeriodCfg], Dashboard)

Next ==
    \/ tick < MaxTicks /\ AdvanceClock
    \/ /\ nextSerial <= MaxAdds
       /\ \E in \in SignalInputs : AddPositionCall(in[1], in[2], in[3], in[4], in[5], TRUE)
    \/ /\ nUpdates < MaxUpdates
       /\ \E prices \in PriceMaps : UpdatePositionsCall(prices)

Spec == Init /\ [][Next]_vars

(* SpecCap: the capacity limits of addPosition. *)

InitCap == InitWith([maxPositions |-> MaxPositionsCfg, atrPeriod |-> AtrPeriodCfg], Dashboard)

NextCap ==
    \/ tick < MaxTicksCap /\ AdvanceClock
    \/ /\ nextSerial <= MaxAddsCap
       /\ \E in \in SignalInputsCap : AddPositionCall(in[1], in[2], in[3], in[4], in[5], TRUE)
    \/ /\ nUpdates < MaxUpdatesCap
       /\ \E prices \in PriceMapsCap : UpdatePositionsCall(prices)

SpecCap == InitCap /\ [][NextCap]_vars

(* SpecFull: an engine constructed with a small maxPositions and filled. *)

MaxPositionsFull == 2
MaxAddsFull == 3
MaxUpdatesFull == 1
MaxTicksFull == 1

InitFull == InitWith([maxPositions |-> MaxPositionsFull, atrPeriod |-> AtrPeriodCfg], Dashboard)

NextFull ==
    \/ tick < MaxTicksFull /\ AdvanceClock
    \/ /\ nextSerial <= MaxAddsFull
       /\ \E in \in SignalInputsCap : AddPositionCall(in[1], in[2], in[3], in[4], in[5], TRUE)
    \/ /\ nUpdates < MaxUpdatesFull
       /\ \E prices \in PriceMapsCap : UpdatePositionsCall(prices)

SpecFull == InitFull /\ [][NextFull]_vars

(* SpecTick: one position followed through a sequence of price updates. *)

NextTick ==
    \/ tick < MaxTicksTick /\ AdvanceClock
    \/ /\ nextSerial <= MaxAddsTick
       /\ \E in \in SignalInputsTick : AddPositionCall(in[1], in[2], in[3], in[4], in[5], TRUE)
    \/ /\ nUpdates < MaxUpdatesTick
       /\ \E prices \in PriceMapsTick : UpdatePositionsCall(prices)

SpecTick == Init /\ [][NextTick]_vars

(* SpecApi: every public operation of the engine, with subscribers that  *)
(* register at any time and may call back into the engine.               *)

InitApi == InitWith([maxPositions |-> 2, atrPeriod |-> AtrPeriodCfg], <<>>)

NextApi ==
    \/ tick < MaxTicksApi /\ AdvanceClock
    \/ \E cb \in CallbackKinds \ Range(exitCallbacks) : OnPositionExit(cb)
    \/ /\ nextSerial <= MaxAddsApi
       /\ \E in \in SignalInputsCap : AddPositionCall(in[1], in[2], in[3], in[4], in[5], TRUE)
    \/ /\ nUpdates < MaxUpdatesApi
       /\ \E prices \in PriceMapsCap : UpdatePositionsCall(prices)
    \/ \E i \in DOMAIN positions : RemovePosition(positions[i].id)

SpecApi == InitApi /\ [][NextApi]_vars

(* SpecThrow: exits handed to several subscribers, one of which throws. *)

\* The subscribers of SpecThrow, registered in either order
ThrowKinds == {Throwing, "reward"}

\* Ticks of SpecThrow: one that moves both symbols below a long entry and one
\* that moves them above it
PriceMapsThrow ==
    {[BTCUSDT |-> 95 * Scale, ETHUSDT |-> 95 * Scale],
     [BTCUSDT |-> 110 * Scale, ETHUSDT |-> 101 * Scale]}

NextThrow ==
    \/ tick < MaxTicksThrow /\ AdvanceClock
    \/ \E cb \in ThrowKinds \ Range(exitCallbacks) : OnPositionExit(cb)
    \/ /\ nextSerial <= MaxAddsThrow
       /\ \E in \in SignalInputsCap : AddPositionCall(in[1], in[2], in[3], in[4], in[5], TRUE)
    \/ /\ nUpdates < MaxUpdatesThrow
       /\ \E prices \in PriceMapsThrow : UpdatePositionsCall(prices)

SpecThrow == InitApi /\ [][NextThrow]_vars

(* SpecClose: exits whose subscribers move the exiting position again. *)

CloseKinds == {Repricing, "reward"}

NextClose ==
    \/ tick < MaxTicksClose /\ AdvanceClock
    \/ \E cb \in CloseKinds \ Range(exitCallbacks) : OnPositionExit(cb)
    \/ /\ nextSerial <= MaxAddsClose
       /\ \E in \in SignalInputsTick :
             AddPositionCall(in[1], in[2], in[3], in[4], in[5], TRUE)
    \/ /\ nUpdates < MaxUpdatesClose
       /\ \E prices \in PriceMapsReward : UpdatePositionsCall(prices)

SpecClose == InitApi /\ [][NextClose]_vars

(* SpecNested: ticks whose exits run a subscriber that calls              *)
(* updatePositions with other prices, while other positions of the tick   *)
(* are still to be visited.                                               *)

MaxAddsNested == 2
MaxUpdatesNested == 1
MaxTicksNested == 2

NextNested ==
    \/ tick < MaxTicksNested /\ AdvanceClock
    \/ \E cb \in CloseKinds \ Range(exitCallbacks) : OnPositionExit(cb)
    \/ /\ nextSerial <= MaxAddsNested
       /\ \E in \in SignalInputsCap : AddPositionCall(in[1], in[2], in[3], in[4], in[5], TRUE)
    \/ /\ nUpdates < MaxUpdatesNested
       /\ \E prices \in PriceMapsCap : UpdatePositionsCall(prices)

SpecNested == InitApi /\ [][NextNested]_vars

(* SpecSweep: ticks over several live positions, some of which exit. *)

MaxAddsSweep == 2
MaxUpdatesSweep == 1
MaxTicksSweep == 2

NextSweep ==
    \/ tick < MaxTicksSweep /\ AdvanceClock
    \/ /\ nextSerial <= MaxAddsSweep
       /\ \E in \in SignalInputsCap : AddPositionCall(in[1], in[2], in[3], in[4], in[5], TRUE)
    \/ /\ nUpdates < MaxUpdatesSweep
       /\ \E prices \in PriceMaps : UpdatePositionsCall(prices)

SpecSweep == InitCap /\ [][NextSweep]_vars

(* SpecMethod: addPosition for signals of every strategy id of the         *)
(* orchestrator and of ids it does not know.                              *)

MaxAddsMethod == 2
MaxTicksMethod == 2

\* The eight strategy ids, an id no table knows and an id that names a
\* member of Object.prototype
StrategyInputsMethod == StrategyIds \cup {"manual", "constructor"}

NextMethod ==
    \/ tick < MaxTicksMethod /\ AdvanceClock
    \/ /\ nextSerial <= MaxAddsMethod
       /\ \E strategy \in StrategyInputsMethod, symbol \in Symbols :
             AddPositionCall(symbol, "buy", strategy, 100 * Scale, 1, TRUE)

SpecMethod == InitCap /\ [][NextMethod]_vars

(* SpecOrch: the dashboard's trading cycles over the orchestrator and the  *)
(* engine, both constructed with their defaults.                          *)

InitOrch == InitWith(EmptyMap, Dashboard)

NextOrch ==
    \/ tick < MaxTicksOrch /\ TimePasses
    \/ \E data \in PriceMapsOrch :
           /\ nUpdates < MaxFeedsOrch
           /\ Len(inflight) < MaxInflight
           /\ HandleMarketDataUpdate(data)
    \/ CycleInsufficientData
    \/ \E features \in FeatureInputs, strategy \in selectStrategy :
           CycleGenerate(features, strategy)
    \/ \E i \in 1..MaxInflight, ok \in BOOLEAN : SaveSignalSettles(i, ok)

SpecOrch == InitOrch /\ [][NextOrch]_vars

(* SpecRing: a long run of trading cycles on one symbol, one tick per      *)
(* instant, that fills the recentSignals buffer.  The cycles of the first  *)
(* MaxFreeRing ticks, and those that find the buffer full, end in any way; *)
(* in between the strategy fires and the write succeeds.                   *)

MaxFeedsRing == 106
MaxTicksRing == 106
MaxFreeRing == 5
MaxShortRing == 4
MaxFailuresRing == 1

\* The clock between two ticks: 20 seconds at first, then 6 minutes
ClockStepRing(k) == IF k < MaxShortRing THEN 20000 ELSE 360000

\* A market with a weak upward trend: trend following fires with a
\* confidence of 0.45, below the 0.7 the dashboard trades on, and scalping
\* does not fire
FeatureInputsRing ==
    {[vvix |-> 0, ofi |-> 0, vpin |-> 0, correlation |-> 0, liquidity |-> 5000,
      volatility |-> 1000, momentum |-> 0, meanReversion |-> 0, trend |-> 300]}

FreeRing == nUpdates <= MaxFreeRing \/ Len(recentSignals) >= RecentSignalsCap

TimePassesRing ==
    /\ running = <<>>
    /\ inflight = <<>>
    /\ now' = now + ClockStepRing(tick)
    /\ tick' = tick + 1
    /\ UNCHANGED <<engineVars, banditArms, performance, orchVars, nUpdates>>
    /\ UNCHANGED <<featVars, persistVars, selections>>

NextRing ==
    \/ tick < MaxTicksRing /\ tick < nUpdates /\ TimePassesRing
    \/ /\ nUpdates < MaxFeedsRing
       /\ nUpdates <= tick
       /\ inflight = <<>>
       /\ HandleMarketDataUpdate([BTCUSDT |-> 100 * Scale, ETHUSDT |-> 0])
    \/ \E features \in FeatureInputsRing :
          \E strategy \in IF FreeRing THEN {"trend_following", "scalping"}
                                       ELSE {"trend_following"} :
             CycleGenerate(features, strategy)
    \/ SaveSignalSettles(1, TRUE)
    \/ /\ FreeRing
       /\ Cardinality(failed) < MaxFailuresRing
       /\ SaveSignalSettles(1, FALSE)

SpecRing == InitOrch /\ [][NextRing]_vars

(* SpecPersist: two runs of the engine on the same ticks and signals, one  *)
(* with persistence calls that fail or settle late.                        *)

\* What extractFeatures returns to detectRegime: null, or the features of a
\* volatile market
RegimeInputs ==
    {<<>>,
     <<[vvix |-> 0, ofi |-> 0, vpin |-> 0, correlation |-> 0, liquidity |-> 5000,
        volatility |-> 8000, momentum |-> 0, meanReversion |-> 0, trend |-> 0]>>}

\* The signal of SpecPersist: a long position whose strategy has an arm
SignalInputsPersist == {<<"BTCUSDT", "buy", "momentum", 100 * Scale, 1>>}

NextPersist ==
    \/ tick < MaxTicksPersist /\ AdvanceClock
    \/ \E features \in RegimeInputs : DetectRegimeCall(features)
    \/ /\ nextSerial <= MaxAddsPersist
       /\ \E in \in SignalInputsPersist :
             PersistAddPosition(in[1], in[2], in[3], in[4], in[5])
    \/ /\ nUpdates < MaxUpdatesPersist
       /\ \E prices \in PriceMapsReward : PersistUpdatePositions(prices)
    \/ \E i \in DOMAIN pending : PersistenceSettles(i, TRUE)
    \/ /\ failures < MaxFailuresPersist
       /\ \E i \in DOMAIN pending : PersistenceSettles(i, FALSE)

SpecPersist == InitOrch /\ [][NextPersist]_vars

(* SpecRegime: detectRegime on feature sets around its thresholds. *)

\* Feature sets by volatility, trend and mean reversion, in basis points
RegimeGrid ==
    {[vvix |-> 0, ofi |-> 0, vpin |-> 0, correlation |-> 0, liquidity |-> 5000,
      volatility |-> v, momentum |-> 0, meanReversion |-> m, trend |-> t] :
        v \in {0, 7000, 7001, 9000},
        t \in {-9000, -6001, 0, 6000, 6001},
        m \in {0, 6000, 6001, 10000}}

NextRegime ==
    \/ tick < MaxTicksRegime /\ AdvanceClock
    \/ \E f \in RegimeGrid : DetectRegimeCall(<<f>>)
    \/ DetectRegimeCall(<<>>)
    \/ \E i \in DOMAIN pending : PersistenceSettles(i, TRUE)
    \/ /\ failures < MaxFailuresPersist
       /\ \E i \in DOMAIN pending : PersistenceSettles(i, FALSE)

SpecRegime == InitOrch /\ [][NextRegime]_vars

(* SpecRace: the same cycles over a longer run, in which a tick may arrive *)
(* while the cycle of an earlier tick still awaits saveSignal.             *)

NextRace ==
    \/ tick < MaxTicksRace /\ TimePasses
    \/ \E data \in PriceMapsOrch :
           /\ nUpdates < MaxFeedsRace
           /\ Len(inflight) < MaxInflightRace
           /\ HandleMarketDataUpdate(data)
    \/ CycleInsufficientData
    \/ \E features \in FeatureInputs, strategy \in selectStrategy :
           CycleGenerate(features, strategy)
    \/ \E i \in 1..MaxInflightRace, ok \in BOOLEAN : SaveSignalSettles(i, ok)

SpecRace == InitOrch /\ [][NextRace]_vars

(* SpecReward: trading cycles on one symbol whose positions exit, and      *)
(* reward their strategy, while later cycles await saveSignal.            *)

NextReward ==
    \/ tick < MaxTicksReward /\ TimePasses
    \/ \E data \in PriceMapsReward :
           /\ nUpdates < MaxFeedsReward
           /\ Len(inflight) < MaxInflightReward
           /\ HandleMarketDataUpdate(data)
    \/ CycleInsufficientData
    \/ \E features \in FeatureInputs, strategy \in selectStrategy :
           CycleGenerate(features, strategy)
    \/ \E i \in 1..MaxInflightReward, ok \in BOOLEAN : SaveSignalSettles(i, ok)

SpecReward == InitOrch /\ [][NextReward]_vars

(* SpecSignal: generateSignal on feature sets at the edges of what the     *)
(* FeatureEngine computes.                                                *)

MaxFeedsSignal == 2
MaxInflightSignal == 1
MaxTicksSignal == 1

\* Feature sets: an order-flow imbalance of 2.0 in a liquid, calm market
\* (bidFlow 3, askFlow -1), a breakout market whose momentum is negative,
\* and a quiet market
FeatureInputsSignal ==
    {[vvix |-> 0, ofi |-> 20000, vpin |-> 0, correlation |-> 0, liquidity |-> 8000,
      volatility |-> 1000, momentum |-> 0, meanReversion |-> 0, trend |-> 0],
     [vvix |-> 0, ofi |-> 0, vpin |-> 0, correlation |-> 0, liquidity |-> 6000,
      volatility |-> 7000, momentum |-> -500, meanReversion |-> 0, trend |-> 0],
     [vvix |-> 0, ofi |-> 0, vpin |-> 0, correlation |-> 0, liquidity |-> 5000,
      volatility |-> 1000, momentum |-> 0, meanReversion |-> 0, trend |-> 0]}

NextSignal ==
    \/ tick < MaxTicksSignal /\ TimePasses
    \/ \E data \in PriceMapsReward :
           /\ nUpdates < MaxFeedsSignal
           /\ Len(inflight) < MaxInflightSignal
           /\ HandleMarketDataUpdate(data)
    \/ CycleInsufficientData
    \/ \E features \in FeatureInputsSignal, strategy \in selectStrategy :
           CycleGenerate(features, strategy)
    \/ \E i \in 1..MaxInflightSignal, ok \in BOOLEAN : SaveSignalSettles(i, ok)

SpecSignal == InitOrch /\ [][NextSignal]_vars

(* SpecVolatility: detectRegime on the price histories that ticks build. *)

MaxFeedsVolatility == 10

\* Ticker prices of a market that moves between two levels
TickerPrices == {100, 300}

\* detectRegime(symbol) on the buffers of the FeatureEngine
DetectRegimeOf(symbol) == DetectRegimeCall(extractFeatures(fePriceHistory, symbol))

NextVolatility ==
    \/ \E price \in TickerPrices :
           /\ feCalls < MaxFeedsVolatility
           /\ UpdateDataCall([s \in {"BTCUSDT"} |-> [price |-> price, volume |-> 1]],
                             EmptyMap)
    \/ DetectRegimeOf("BTCUSDT")
    \/ \E i \in DOMAIN pending : PersistenceSettles(i, TRUE)
    \/ /\ failures < MaxFailuresPersist
       /\ \E i \in DOMAIN pending : PersistenceSettles(i, FALSE)

SpecVolatility == InitOrch /\ [][NextVolatility]_vars

(* SpecConfig: trading cycles of an orchestrator whose configuration is    *)
(* changed while it runs.                                                 *)

MaxFeedsConfig == 2
MaxInflightConfig == 1
MaxTicksConfig == 1

\* Partial configurations handed to updateConfig
OrchConfigInputs ==
    {[minConfidenceThreshold |-> 0], [minConfidenceThreshold |-> 2500]}

NextConfig ==
    \/ tick < MaxTicksConfig /\ TimePasses
    \/ \E newConfig \in OrchConfigInputs : OrchestratorUpdateConfig(newConfig)
    \/ \E data \in PriceMapsReward :
           /\ nUpdates < MaxFeedsConfig
           /\ Len(inflight) < MaxInflightConfig
           /\ HandleMarketDataUpdate(data)
    \/ CycleInsufficientData
    \/ \E features \in FeatureInputs, strategy \in selectStrategy :
           CycleGenerate(features, strategy)
    \/ \E i \in 1..MaxInflightConfig, ok \in BOOLEAN : SaveSignalSettles(i, ok)

SpecConfig == InitOrch /\ [][NextConfig]_vars

(* SpecTuning: positions followed through ticks while the configuration   *)
(* of the engine is changed.                                              *)

MaxAddsTuning == 1
MaxUpdatesTuning == 2
MaxTicksTuning == 2

\* Partial configurations handed to the engine's updateConfig
EngineConfigInputs ==
    {[trailingStopPercent |-> 1000], [trailingStopPercent |-> 200]}

NextTuning ==
    \/ tick < MaxTicksTuning /\ AdvanceClock
    \/ \E newConfig \in EngineConfigInputs : EngineUpdateConfig(newConfig)
    \/ /\ nextSerial <= MaxAddsTuning
       /\ \E in \in SignalInputsTick :
             AddPositionCall(in[1], in[2], in[3], in[4], in[5], TRUE)
    \/ /\ nUpdates < MaxUpdatesTuning
       /\ \E prices \in PriceMapsTick : UpdatePositionsCall(prices)

SpecTuning == Init /\ [][NextTuning]_vars

(* SpecExit: positions followed from their first seconds to the day after, *)
(* through ticks that carry a price for their symbol or none.              *)

MaxTicksExit == 3
MaxAddsExit == 1
MaxUpdatesExit == 2

\* Ticks above and below the entry price, a tick a little below the first
\* one, and a tick without BTCUSDT
PriceMapsExit ==
    PriceMapsTick \cup {[BTCUSDT |-> 108 * Scale, ETHUSDT |-> 0],
                        [BTCUSDT |-> 0, ETHUSDT |-> 100 * Scale]}

NextExit ==
    \/ tick < MaxTicksExit /\ AdvanceClock
    \/ /\ nextSerial <= MaxAddsExit
       /\ \E in \in SignalInputsTick :
             AddPositionCall(in[1], in[2], in[3], in[4], in[5], TRUE)
    \/ /\ nUpdates < MaxUpdatesExit
       /\ \E prices \in PriceMapsExit : UpdatePositionsCall(prices)

SpecExit == Init /\ [][NextExit]_vars

(* SpecFeature: the FeatureEngine under ticks that carry any symbols, in   *)
(* tickers or in order books, and clean-ups.                              *)

NextFeature ==
    \/ \E feed \in FeedKinds :
           /\ feCalls < MaxFeedsFeature
           /\ UpdateDataCall(TickersFor(feed[1]), OrderBooksFor(feed[2]))
    \/ \E A \in ActiveSets :
           /\ feCleanups < MaxCleanups
           /\ CleanupOldSymbolsCall(A)

SpecFeature == InitOrch /\ [][NextFeature]_vars

(* SpecBuffer: one symbol fed until its buffers pass the cap. *)

NextBuffer ==
    \E B \in SUBSET {"BTCUSDT"} :
        /\ feCalls < MaxFeedsBuffer
        /\ UpdateDataCall(TickersFor({"BTCUSDT"}), OrderBooksFor(B))

SpecBuffer == InitOrch /\ [][NextBuffer]_vars

(* SpecBandit: rewards reported to the bandit arms of a fresh orchestrator. *)

\* Number of updateReward calls that have reached an arm
RewardsApplied == SumTrials(banditArms, StrategyIds) - Cardinality(StrategyIds)

NextBandit ==
    \E strategy \in RewardStrategies, profit \in RewardProfits :
        /\ RewardsApplied < MaxRewards
        /\ UpdateRewardCall(strategy, profit)

SpecBandit == InitOrch /\ [][NextBandit]_vars

(* SpecSelect: selectStrategy called again and again while the clock, the *)
(* arms and the configuration of the orchestrator move.                   *)

MaxTicksSelect == 1
MaxRewardsSelect == 1
MaxSelections == 2

\* A stream of draws: six per arm (u1, u2, u for each of the two gamma
\* samples), then the draw compared with the exploration rate and the draw
\* of the random index
DrawStream(u2s, explore, pick) ==
    [i \in 1..50 |->
        IF i = 49 THEN explore
        ELSE IF i = 50 THEN pick
        ELSE IF i % 3 = 1 THEN 6065
        ELSE IF i % 3 = 2 THEN u2s[(i + 1) \div 3]
        ELSE 5000]

\* One stream whose first draw after the samples is above the default
\* exploration rate and one whose draw is below it
DrawStreams ==
    {DrawStream([j \in 1..16 |-> IF j % 2 = 1 THEN 0 ELSE 5000], 9000, 6000),
     DrawStream([j \in 1..16 |-> 2500], 500, 3000)}

\* Features of a stable and of a trending market
SelectInputs ==
    {f \in RegimeGrid : f.volatility = 0 /\ f.meanReversion = 0 /\ f.trend \in {0, 6001}}

\* Partial configurations handed to updateConfig
ExplorationInputs == {[explorationRate |-> 800], [explorationRate |-> 10000]}

NextSelect ==
    \/ tick < MaxTicksSelect /\ AdvanceClock
    \/ /\ RewardsApplied < MaxRewardsSelect
       /\ UpdateRewardCall("trend_following", 5 * Scale)
    \/ \E newConfig \in ExplorationInputs : OrchestratorUpdateConfig(newConfig)
    \/ /\ Len(selections) < MaxSelections
       /\ \E features \in SelectInputs, draws \in DrawStreams :
             SelectStrategyCall(features, detectRegime(features), draws)

SpecSelect == InitOrch /\ [][NextSelect]_vars

(* SpecTrail: positions opened before the first tick and then updated,   *)
(* with updateConfig calls between the ticks. Every entry of a symbol's   *)
(* price history is then a price every live position of the symbol saw.   *)

MaxAddsTrail == 2
MaxUpdatesTrail == 3
MaxTicksTrail == 1

NextTrail ==
    \/ tick < MaxTicksTrail /\ AdvanceClock
    \/ \E newConfig \in EngineConfigInputs : EngineUpdateConfig(newConfig)
    \/ /\ nextSerial <= MaxAddsTrail
       /\ nUpdates = 0
       /\ \E in \in SignalInputsTick :
             AddPositionCall(in[1], in[2], in[3], in[4], in[5], TRUE)
    \/ /\ nUpdates < MaxUpdatesTrail
       /\ \E prices \in PriceMapsTick : UpdatePositionsCall(prices)

SpecTrail == Init /\ [][NextTrail]_vars

(* SpecPeak: positions opened before the first tick, then ticks whose     *)
(* prices rise above the entry, pull back a little and fall below it.     *)

MaxAddsPeak == 2
MaxUpdatesPeak == 3
MaxTicksPeak == 1

PriceMapsPeak ==
    {[BTCUSDT |-> 101 * Scale, ETHUSDT |-> 0],
     [BTCUSDT |-> 100 * Scale + Scale \div 2, ETHUSDT |-> 0],
     [BTCUSDT |-> 99 * Scale, ETHUSDT |-> 0],
     [BTCUSDT |-> 90 * Scale, ETHUSDT |-> 0]}

NextPeak ==
    \/ tick < MaxTicksPeak /\ AdvanceClock
    \/ /\ nextSerial <= MaxAddsPeak
       /\ nUpdates = 0
       /\ \E in \in SignalInputsTick :
             AddPositionCall(in[1], in[2], in[3], in[4], in[5], TRUE)
    \/ /\ nUpdates < MaxUpdatesPeak
       /\ \E prices \in PriceMapsPeak : UpdatePositionsCall(prices)

SpecPeak == Init /\ [][NextPeak]_vars

(* SpecCredit: the engine with the dashboard's callback, under positions  *)
(* of strategies with an arm and of one without, which exit with a profit *)
(* or with a loss. The positions are opened before the first tick, and a  *)
(* tick arrives when every live position is past its first 10 seconds.    *)

MaxAddsCredit == 3
MaxUpdatesCredit == 2
MaxTicksCredit == 2

SignalInputsCredit ==
    {<<"BTCUSDT", "buy", "momentum", 100 * Scale, 1>>,
     <<"BTCUSDT", "sell", "scalping", 100 * Scale, 1>>,
     <<"ETHUSDT", "sell", "manual", 100 * Scale, 1>>}

PriceMapsCredit ==
    {[BTCUSDT |-> 95 * Scale, ETHUSDT |-> 95 * Scale],
     [BTCUSDT |-> 110 * Scale, ETHUSDT |-> 110 * Scale]}

NextCredit ==
    \/ tick < MaxTicksCredit /\ AdvanceClock
    \/ /\ nextSerial <= MaxAddsCredit
       /\ nUpdates = 0
       /\ \E in \in SignalInputsCredit :
             AddPositionCall(in[1], in[2], in[3], in[4], in[5], TRUE)
    \/ /\ nUpdates < MaxUpdatesCredit
       /\ \A i \in DOMAIN positions : now - positions[i].entryTime >= 10000
       /\ \E prices \in PriceMapsCredit : UpdatePositionsCall(prices)

SpecCredit == InitCap /\ [][NextCredit]_vars

(* SpecLive: positions under ticks that keep arriving while time advances.*)
(* Positions are opened before the first tick under ids of their own,     *)
(* early enough for the bounded clock to carry them past a day; ticks are *)
(* counted cyclically,                                                    *)
(* so that an endless run of ticks stays within finitely many states.     *)

MaxAddsLive == 2
MaxUpdatesLive == 2
MaxTicksLive == 4

\* The clock steps a position needs after its entry
DecaySteps == 2

SignalInputsLive ==
    {<<"BTCUSDT", "buy", "momentum", 100 * Scale, 1>>,
     <<"BTCUSDT", "sell", "statistical_arbitrage", 100 * Scale, 1>>}

\* Ticks with a price for the symbol of the positions
PriceMapsLive == {[BTCUSDT |-> 100 * Scale, ETHUSDT |-> 0]}

\* Ticks without one
PriceMapsPartial == {[BTCUSDT |-> 0, ETHUSDT |-> 100 * Scale]}

ClockLive == tick < MaxTicksLive /\ AdvanceClock

TickLive(prices) ==
    /\ UpdatePositions(prices)
    /\ nUpdates' = (nUpdates % MaxUpdatesLive) + 1
    /\ UNCHANGED <<orchVars, tick>>
    /\ UNCHANGED <<featVars, persistVars, selections>>

FullTickLive == \E prices \in PriceMapsLive : TickLive(prices)

NextLive ==
    \/ ClockLive
    \/ /\ nextSerial <= MaxAddsLive
       /\ tick + DecaySteps <= MaxTicksLive
       /\ nUpdates = 0
       /\ \E in \in SignalInputsLive :
             /\ \A i \in DOMAIN positions : positions[i].id # <<in[1], now>>
             /\ AddPositionCall(in[1], in[2], in[3], in[4], in[5], TRUE)
    \/ FullTickLive
    \/ \E prices \in PriceMapsPartial : TickLive(prices)

\* Time keeps advancing.
SpecLive == InitCap /\ [][NextLive]_vars /\ WF_vars(ClockLive)

\* Ticks with a price for the symbol keep arriving.
TicksKeepArriving == []<><<FullTickLive>>_vars

(* SpecArms: the orchestrator under everything that reads or writes its   *)
(* arms: trading cycles, selectStrategy calls, position exits and rewards *)
(* reported by other callers.                                             *)

MaxFeedsArms == 2

\* Time passes twice between two feeds, and a feed arrives when no
\* saveSignal is pending; the other callers of the orchestrator act at
\* most once per feed: a reward reported from elsewhere between the two
\* ticks, a selectStrategy call after them.
NextArms ==
    \/ tick < 2 * nUpdates /\ TimePasses
    \/ \E data \in PriceMapsReward :
           /\ nUpdates < MaxFeedsArms
           /\ 2 * nUpdates <= tick
           /\ inflight = <<>>
           /\ HandleMarketDataUpdate(data)
    \/ CycleInsufficientData
    \/ \E features \in FeatureInputs : CycleGenerate(features, "trend_following")
    \/ \E ok \in BOOLEAN : SaveSignalSettles(1, ok)
    \/ /\ RewardsApplied < nUpdates
       /\ tick = 2 * nUpdates - 1
       /\ running = <<>>
       /\ UpdateRewardCall("momentum", -5 * Scale)
    \/ /\ Len(selections) < nUpdates
       /\ tick = 2 * nUpdates
       /\ running = <<>>
       /\ \E features \in {f \in SelectInputs : f.trend = 0} :
             SelectStrategyCall(features, detectRegime(features),
                                DrawStream([j \in 1..16 |-> 2500], 500, 3000))

SpecArms == InitOrch /\ [][NextArms]_vars

----------------------------------------------------------------------------
(* Helpers of the properties *)

Uids(ps) == {ps[i].uid : i \in DOMAIN ps}

ByUid(ps, u) == ps[CHOOSE i \in DOMAIN ps : ps[i].uid = u]

MethodConfig(p) == defaultConfigs(config)[p.profitLockMethod]

TrailingStopBreach(p) ==
    \/ p.side = "long" /\ p.currentPrice <= p.trailingStopPrice
    \/ p.side = "short" /\ p.currentPrice >= p.trailingStopPrice

TakeProfitBreach(p) ==
    \/ p.side = "long" /\ p.currentPrice >= p.takeProfitPrice
    \/ p.side = "short" /\ p.currentPrice <= p.takeProfitPrice

TimeLimitReached(p) ==
    /\ MethodConfig(p).timeBasedExitMinutes # 0
    /\ now - p.entryTime >= MethodConfig(p).timeBasedExitMinutes * 60000

EdgeDecayBreach(p) == p.edgeDecayScore < MethodConfig(p).edgeDecayThreshold

MaxDrawdownBreach(p) ==
    p.maxDrawdownFromPeak[1] * 10000 > MethodConfig(p).maxDrawdownPercent * p.maxDrawdownFromPeak[2]

\* The five exit conditions as the claim lists them.
AnyExitCondition(p) ==
    \/ TrailingStopBreach(p)
    \/ TakeProfitBreach(p)
    \/ TimeLimitReached(p)
    \/ EdgeDecayBreach(p)
    \/ MaxDrawdownBreach(p)

\* The five exit conditions with the qualifications the engine applies.
AnyQualifiedExitCondition(p) ==
    \/ TrailingStopBreach(p)
    \/ TakeProfitBreach(p)
    \/ TimeLimitReached(p)
    \/ EdgeDecayBreach(p) /\ now - p.entryTime > 60000
    \/ MaxDrawdownBreach(p) /\ p.unrealizedPnL < 0

CloseCount(u) == Cardinality({k \in DOMAIN closeLog : closeLog[k].uid = u})

CallbackCount(u, cb) ==
    Cardinality({k \in DOMAIN cbLog : cbLog[k].uid = u /\ cbLog[k].cb = cb})

----------------------------------------------------------------------------
(* Properties *)

\* C1: the live set never holds more than 3 positions of one symbol; an
\* addPosition call for a symbol that already has 3 live positions returns the
\* rejection value and leaves the live set unchanged.
C1_PerSymbolCap ==
    [][ /\ \A sym \in Symbols : LiveCount(positions', sym) <= 3
        /\ \A in \in SignalInputsCap :
              ( /\ LiveCount(positions, in[1]) >= 3
                /\ AddPositionCall(in[1], in[2], in[3], in[4], in[5], TRUE) )
              => (lastResult' = Rejected /\ positions' = positions) ]_vars

\* C1 witness: a symbol holds 3 live positions, the last addPosition call was
\* refused, the global cap is not reached and no position has ever exited, so
\* the refusal came from the per-symbol cap.
C1_Witness ==
    /\ \E sym \in Symbols : LiveCount(positions, sym) = 3
    /\ lastResult = Rejected
    /\ Len(positions) < config.maxPositions
    /\ closeLog = <<>>

\* C2: with maxPositions fixed at construction the number of live positions
\* never exceeds it; addPosition called when the live count equals maxPositions
\* returns the rejection value and changes nothing.
C2_GlobalCap ==
    [][ /\ config' = config => Len(positions') <= config.maxPositions
        /\ \A in \in SignalInputsCap :
              ( /\ Len(positions) = config.maxPositions
                /\ AddPositionCall(in[1], in[2], in[3], in[4], in[5], TRUE) )
              => /\ lastResult' = Rejected
                 /\ UNCHANGED <<positions, priceHistory, signalIdMap, config,
                                closeLog, cbLog, banditArms, performance>> ]_vars

\* C2 witness: the live set is full with fewer than 3 positions on every
\* symbol, and the last addPosition call was refused.
C2_Witness ==
    /\ Len(positions) = config.maxPositions
    /\ \A sym \in Symbols : LiveCount(positions, sym) < 3
    /\ lastResult = Rejected

\* C3: a position leaves the live set only through exitPosition, and every
\* removal hands the position to closePosition and to every registered exit
\* callback; no other public operation removes a live position.
C3_OnlyExitRemoves ==
    [][ \A u \in Uids(positions) \ Uids(positions') :
           /\ \E k \in DOMAIN closeLog' : k > Len(closeLog) /\ closeLog'[k].uid = u
           /\ \A cb \in Range(exitCallbacks) :
                 \E k \in DOMAIN cbLog' :
                    k > Len(cbLog) /\ cbLog'[k].uid = u /\ cbLog'[k].cb = cb ]_vars

\* C4: for every position the exit callbacks are each invoked at most once and
\* closePosition is issued at most once, also when a callback calls
\* updatePositions while the exiting position is still in the live set.
C4_ExitAtMostOnce ==
    \A u \in 1..(nextUid - 1) :
        /\ CloseCount(u) <= 1
        /\ \A cb \in CallbackKinds : CallbackCount(u, cb) <= 1

\* C5 (as stated): after every updatePositions call every live position
\* satisfies none of the five exit conditions.
C5_LiveIffNoExitCondition ==
    [][ nUpdates' = nUpdates + 1 =>
           \A j \in DOMAIN positions' : ~ AnyExitCondition(positions'[j]) ]_vars

\* C5 (amended): after an updatePositions call, every live position that had a
\* price in the call and was at least 10 s old satisfies none of the exit
\* conditions as the engine qualifies them (edge decay only after 60 s,
\* drawdown only while the PnL is negative); every position the call removed
\* had a price, was at least 10 s old and satisfied one of them after its
\* update; positions younger than 10 s or without a price stay live.
C5_LiveIffNoQualifiedExit ==
    [][ \A prices \in PriceMaps : UpdatePositionsCall(prices) =>
           /\ \A j \in DOMAIN positions' :
                 LET p == positions'[j]
                 IN  (prices[p.symbol] # 0 /\ now - p.entryTime >= 10000)
                        => ~ AnyQualifiedExitCondition(p)
           /\ \A i \in DOMAIN positions :
                 LET p == positions[i]
                 IN  IF prices[p.symbol] # 0 /\ now - p.entryTime >= 10000
                     THEN p.uid \notin Uids(positions') =>
                            AnyQualifiedExitCondition(
                                updatePositionObj(p, prices[p.symbol], config, now))
                     ELSE p.uid \in Uids(positions') ]_vars

\* C5 witness: an update has closed one position and kept another that it
\* evaluated at more than a minute of age.
C5_Witness ==
    /\ closeLog # <<>>
    /\ \E j \in DOMAIN positions :
          /\ positions[j].timeHeld # <<0>>
          /\ positions[j].currentPrice # positions[j].entryPrice

\* C6: from one state to the next a long position's trailingStopPrice never
\* decreases and a short position's never increases.
C6_TrailingStopRatchet ==
    [][ \A u \in Uids(positions) \cap Uids(positions') :
           LET p == ByUid(positions, u)
               q == ByUid(positions', u)
           IN  /\ p.side = "long" => q.trailingStopPrice >= p.trailingStopPrice
               /\ p.side = "short" => q.trailingStopPrice <= p.trailingStopPrice ]_vars

\* C6 witness: a long position whose stop has been raised above its initial
\* value and now lies above the stop its current (lower) price would give.
C6_Witness ==
    \E j \in DOMAIN positions :
        LET p == positions[j]
        IN  /\ p.side = "long"
            /\ p.trailingStopPrice > calculateInitialStopPrice(p.originalSignal, config)
            /\ (p.currentPrice * (10000 - MethodConfig(p).trailingPercent)) \div 10000
                  < p.trailingStopPrice

\* C7: maxDrawdownFromPeak of a position never decreases and always lies in
\* [0, 5].
C7_DrawdownMonotoneBounded ==
    [][ /\ \A j \in DOMAIN positions' :
              LET d == positions'[j].maxDrawdownFromPeak
              IN  d[2] > 0 /\ d[1] >= 0 /\ d[1] <= 5 * d[2]
        /\ \A u \in Uids(positions) \cap Uids(positions') :
              ~ FracLess(ByUid(positions', u).maxDrawdownFromPeak,
                         ByUid(positions, u).maxDrawdownFromPeak) ]_vars

\* C7 witness: a position whose recorded drawdown is the clamp value 5 while
\* its current drawdown from the peak is smaller.
C7_Witness ==
    \E j \in DOMAIN positions :
        LET p == positions[j]
        IN  /\ p.maxDrawdownFromPeak = <<5, 1>>
            /\ p.peakPnL > 0
            /\ p.peakPnL - p.unrealizedPnL < 5 * p.peakPnL

AcceptedFor(symbol) == SelectSeq(accepted, LAMBDA a : a.signal.symbol = symbol)

\* C8: when the saveSignal write of a generateSignal call fails, the call
\* returns no signal and records nothing: recentSignals and lastSignalTime
\* keep their values, no signal is returned to the cycle and no position is
\* opened in that step; and no live position or buffered signal ever stems
\* from a signal whose write failed.
C8_FailedSaveLeavesNoTrace ==
    [][/\ failed' # failed =>
              /\ recentSignals' = recentSignals
              /\ lastSignalTime' = lastSignalTime
              /\ accepted' = accepted
              /\ positions' = positions
              /\ nextUid' = nextUid
       /\ \A i \in DOMAIN positions' :
              positions'[i].originalSignal.serial \notin failed'
       /\ \A i \in DOMAIN recentSignals' : recentSignals'[i].serial \notin failed']_vars

\* A write has failed, and the signal of another call was accepted and
\* traded.
C8_Witness ==
    /\ failed # {}
    /\ accepted # <<>>
    /\ positions # <<>>

\* C9: any two signals accepted for the same symbol are at least
\* signalCooldownMs apart, also when generateSignal calls of overlapping
\* trading cycles are suspended on saveSignal at the same time.
C9_CooldownBetweenAccepted ==
    \A i, j \in DOMAIN accepted :
        (i < j /\ accepted[i].signal.symbol = accepted[j].signal.symbol)
            => accepted[j].at - accepted[i].at >= orchConfig.signalCooldownMs

\* C10: at every moment and for every symbol, the signals accepted for the
\* symbol whose timestamp lies in the trailing five minutes are at most
\* maxSignalsPerSymbol.
C10_WindowCap ==
    \A s \in Symbols :
        Len(SelectSeq(AcceptedFor(s),
                      LAMBDA a : now - a.signal.timestamp < RecentWindowMs))
            <= orchConfig.maxSignalsPerSymbol

AllProfitable(perf) == \A k \in DOMAIN perf : perf[k] > 0

\* C11: from the default prior, an arm that has received N rewards, all with
\* profit > 0, has alpha = 1 + N, beta = 1, trials = 1 + N (and wins = 1 + N);
\* an updateReward call changes no arm but the one of its signal's strategy,
\* and an arm that has received no reward still holds the prior.
C11_AllProfitableRewards ==
    [][ /\ \A s \in StrategyIds :
              AllProfitable(performance'[s]) =>
                 /\ banditArms'[s].alpha = 1 + Len(performance'[s])
                 /\ banditArms'[s].beta = 1
                 /\ banditArms'[s].trials = 1 + Len(performance'[s])
                 /\ banditArms'[s].wins = 1 + Len(performance'[s])
        /\ \A strategy \in RewardStrategies, profit \in RewardProfits :
              UpdateRewardCall(strategy, profit) =>
                 \A s \in StrategyIds \ {strategy} :
                    banditArms'[s] = banditArms[s] /\ performance'[s] = performance[s]
      ]_vars

\* C11 witness: one arm has received three profitable rewards and nothing
\* else, while another arm has received a loss.
C11_Witness ==
    /\ Len(performance["momentum"]) = 3
    /\ AllProfitable(performance["momentum"])
    /\ performance["trend_following"] = <<-5 * Scale>>

\* C12: in every state of every interleaving of trading cycles, saveSignal
\* settlements and position exits, selectStrategy included, each arm has
\* trials = alpha + beta - 1 and wins = alpha: no arm is visible with alpha
\* or beta incremented and trials not.
C12_ArmsNeverHalfUpdated ==
    \A s \in StrategyIds :
        /\ banditArms[s].trials = banditArms[s].alpha + banditArms[s].beta - 1
        /\ banditArms[s].wins = banditArms[s].alpha

\* C12 witness: a cycle is about to call generateSignal, and with it
\* selectStrategy, after a position exit has rewarded an arm while another
\* cycle is suspended on saveSignal.
C12_Witness ==
    /\ running # <<>>
    /\ inflight # <<>>
    /\ \E s \in StrategyIds : banditArms[s].trials > 1

RecordedPrices(symbol) ==
    IF symbol \in DOMAIN fePriceHistory THEN Len(fePriceHistory[symbol]) ELSE 0

\* C13: for every symbol extractFeatures returns null exactly when fewer
\* than 10 prices are recorded for it, and getSupportedSymbols is the set of
\* symbols for which extractFeatures does not return null.
C13_FeaturesIffTenPrices ==
    /\ \A s \in Symbols :
          extractFeaturesIsNull(fePriceHistory, s) <=> RecordedPrices(s) < 10
    /\ getSupportedSymbols(fePriceHistory)
          = {s \in Symbols : ~ extractFeaturesIsNull(fePriceHistory, s)}

\* C13 witness: after a clean-up one symbol has exactly 10 prices and is
\* supported, and the other has none.
C13_Witness ==
    /\ feCleanups > 0
    /\ \E s \in Symbols : RecordedPrices(s) = 10 /\ s \in getSupportedSymbols(fePriceHistory)
    /\ \E s \in Symbols : s \notin DOMAIN fePriceHistory

BufferStep(old, new) ==
    \/ new = old
    \/ /\ Len(old) < MaxHistoryLength
       /\ new = Append(old, new[Len(new)])
    \/ /\ Len(old) = MaxHistoryLength
       /\ new = Append(Tail(old), new[Len(new)])

\* C14: the price, volume and order-book buffer of every symbol holds at
\* most 200 entries, and an updateData call changes a buffer only by
\* appending one entry, after dropping the oldest one when the buffer was
\* at the cap.
C14_BuffersCappedFifo ==
    [][ \A T \in SUBSET Symbols, B \in SUBSET Symbols :
           UpdateDataCall(TickersFor(T), OrderBooksFor(B)) =>
              /\ \A s \in DOMAIN fePriceHistory' :
                    /\ Len(fePriceHistory'[s]) <= MaxHistoryLength
                    /\ Len(feVolumeHistory'[s]) <= MaxHistoryLength
                    /\ Len(feOrderBookHistory'[s]) <= MaxHistoryLength
              /\ \A s \in DOMAIN fePriceHistory :
                    /\ BufferStep(fePriceHistory[s], fePriceHistory'[s])
                    /\ BufferStep(feVolumeHistory[s], feVolumeHistory'[s])
                    /\ BufferStep(feOrderBookHistory[s], feOrderBookHistory'[s]) ]_vars

\* C14 witness: the three buffers of a symbol are full and each has lost
\* its first entry.
C14_Witness ==
    /\ "BTCUSDT" \in DOMAIN fePriceHistory
    /\ Len(fePriceHistory["BTCUSDT"]) = MaxHistoryLength
    /\ fePriceHistory["BTCUSDT"][1] > 1
    /\ Len(feVolumeHistory["BTCUSDT"]) = MaxHistoryLength
    /\ feVolumeHistory["BTCUSDT"][1] > 1
    /\ Len(feOrderBookHistory["BTCUSDT"]) = MaxHistoryLength
    /\ feOrderBookHistory["BTCUSDT"][1] > 1

\* C15: updateData never fails; a ticker or an order-book snapshot for a
\* symbol without buffers creates them and is appended.
C15_UpdateDataNeverFails ==
    feResult # "TypeError"

\* C16: with several exit callbacks registered of which one throws, an
\* updatePositions call still invokes every registered callback once for each
\* position it exits, hands the position to closePosition and removes it from
\* the live set, and every other position of the call that has a price is
\* still updated and evaluated: it is either exited in the same way or left
\* live with the fields the update gives it.
C16_ThrowingCallbackIsolated ==
    [][ \A prices \in PriceMapsThrow : UpdatePositionsCall(prices) =>
           \A i \in DOMAIN positions :
              LET p == positions[i]
                  q == updatePositionObj(p, prices[p.symbol], config, now)
              IN  IF prices[p.symbol] = 0
                  THEN p \in Range(positions')
                  ELSE IF exitReasons(q, config, now) = <<>>
                  THEN q \in Range(positions')
                  ELSE /\ p.uid \notin Uids(positions')
                       /\ p.id \notin DOMAIN signalIdMap'
                       /\ Cardinality({k \in DOMAIN closeLog' :
                                         k > Len(closeLog) /\ closeLog'[k].uid = p.uid}) = 1
                       /\ \A cb \in Range(exitCallbacks) :
                             Cardinality({k \in DOMAIN cbLog' :
                                            /\ k > Len(cbLog)
                                            /\ cbLog'[k].uid = p.uid
                                            /\ cbLog'[k].cb = cb}) = 1 ]_vars

\* C16 witness: the throwing callback is registered before the reward
\* callback, an update has exited a position and invoked the throwing callback
\* and then the reward callback for it, and a later position of the same call
\* was updated and stays live.
C16_Witness ==
    /\ exitCallbacks = <<Throwing, "reward">>
    /\ \E k \in DOMAIN cbLog :
          /\ k < Len(cbLog)
          /\ cbLog[k].cb = Throwing
          /\ cbLog[k + 1].cb = "reward"
          /\ cbLog[k + 1].uid = cbLog[k].uid
          /\ \E j \in DOMAIN positions :
                /\ positions[j].uid > cbLog[k].uid
                /\ positions[j].currentPrice # positions[j].entryPrice

C18_RealizedPnlAtExit ==
    [][ /\ SubSeq(closeLog', 1, Len(closeLog)) = closeLog
        /\ \A prices \in PriceMapsReward : UpdatePositionsCall(prices) =>
              LET closed == SubSeq(closeLog', Len(closeLog) + 1, Len(closeLog'))
                  called == SubSeq(cbLog', Len(cbLog) + 1, Len(cbLog'))
                  heads == SelectSeq(called, LAMBDA c : c.cb = exitCallbacks[1])
              IN  /\ exitCallbacks # <<>> =>
                        /\ Len(heads) = Len(closed)
                        /\ \A i \in DOMAIN closed :
                              /\ closed[i].uid = heads[i].uid
                              /\ closed[i].realized_pnl
                                    = clampToDecimal20_8(heads[i].pnl)
                  /\ closed # <<>> =>
                        LET p == ByUid(positions, closed[1].uid)
                        IN  closed[1].realized_pnl = clampToDecimal20_8(
                               updatePositionObj(p, prices[p.symbol], config,
                                                 now).unrealizedPnL) ]_vars

\* C18 witness: a position was closed at a loss and the repricing callback
\* then moved it, so that the reward callback of the same exit saw another
\* PnL than the one closePosition was handed.
C18_Witness ==
    \E k \in DOMAIN closeLog : \E j \in DOMAIN cbLog :
        /\ \A i \in 1..(k - 1) : closeLog[i].uid # closeLog[k].uid
        /\ cbLog[j].uid = closeLog[k].uid
        /\ cbLog[j].cb = "reward"
        /\ closeLog[k].realized_pnl < 0
        /\ cbLog[j].pnl > 0

\* C19: every position carries unrealizedPnL = (current - entry) * size when
\* long and the negation when short.  A long position opened at 100 with size
\* 1 has, after an update to 110, unrealizedPnL 10 and unrealizedPnLPct 10 per
\* cent; after a following update to 95 it has unrealizedPnL -5, peakPnL still
\* 10 and maxDrawdownFromPeak 3/2.
C19_PnlArithmetic ==
    [][ /\ \A j \in DOMAIN positions' :
              LET q == positions'[j]
              IN  q.unrealizedPnL = IF q.side = "long"
                                    THEN (q.currentPrice - q.entryPrice) * q.size
                                    ELSE (q.entryPrice - q.currentPrice) * q.size
        /\ \A prices \in PriceMapsTick : UpdatePositionsCall(prices) =>
              \A u \in Uids(positions) \cap Uids(positions') :
                 LET p == ByUid(positions, u)
                     q == ByUid(positions', u)
                     opened == /\ p.side = "long"
                               /\ p.entryPrice = 100 * Scale
                               /\ p.size = 1
                 IN  /\ ( /\ opened
                          /\ p.currentPrice = p.entryPrice
                          /\ p.peakPnL = 0
                          /\ prices[p.symbol] = 110 * Scale )
                        => /\ q.unrealizedPnL = 10 * Scale
                           /\ q.unrealizedPnLPct = 1000
                     /\ ( /\ opened
                          /\ p.currentPrice = 110 * Scale
                          /\ p.peakPnL = 10 * Scale
                          /\ p.maxDrawdownFromPeak = <<0, 1>>
                          /\ prices[p.symbol] = 95 * Scale )
                        => /\ q.unrealizedPnL = -5 * Scale
                           /\ q.peakPnL = 10 * Scale
                           /\ q.maxDrawdownFromPeak = <<3, 2>> ]_vars

\* C19 witness: the long position opened at 100 with size 1 after the updates
\* to 110 and then to 95.
C19_Witness ==
    /\ \E j \in DOMAIN positions :
          LET p == positions[j]
          IN  /\ p.side = "long" /\ p.entryPrice = 100 * Scale /\ p.size = 1
              /\ p.currentPrice = 95 * Scale
              /\ p.unrealizedPnL = -5 * Scale
              /\ p.peakPnL = 10 * Scale
              /\ p.maxDrawdownFromPeak = <<3, 2>>

\* C20: a position whose profit-lock method has timeBasedExitMinutes = 0 is
\* never closed with the time-based condition among its exit reasons, however
\* long it has been held.
C20_NoTimeExitWithoutLimit ==
    \A k \in DOMAIN closeLog :
        defaultConfigs(config)[closeLog[k].method].timeBasedExitMinutes = 0
           => "Time-based exit" \notin Range(closeLog[k].reason)

\* C20 witness: a position of a method without time limit was closed after it
\* had been held for more than the 240 minutes of the longest limit.
C20_Witness ==
    \E k \in DOMAIN closeLog :
        /\ defaultConfigs(config)[closeLog[k].method].timeBasedExitMinutes = 0
        /\ closeLog[k].age > 240 * 60000
        /\ closeLog[k].reason # <<>>

\* C21: detectRegime classifies a feature set by the first rule that matches,
\* in this order: volatility > 0.7 gives volatile with confidence = volatility;
\* else |trend| > 0.6 gives trending with confidence = |trend|; else
\* meanReversion > 0.6 gives ranging with confidence = meanReversion; else
\* stable with confidence 0.5.
C21_RegimeRuleOrder ==
    [][ \A f \in RegimeGrid : DetectRegimeCall(<<f>>) =>
           /\ Len(lastRegime') = 1
           /\ LET r == lastRegime'[1]
                  a == IF f.trend < 0 THEN -f.trend ELSE f.trend
              IN  /\ f.volatility > 7000
                        => r.type = "volatile" /\ r.confidence = f.volatility
                  /\ (f.volatility <= 7000 /\ a > 6000)
                        => r.type = "trending" /\ r.confidence = a
                  /\ (f.volatility <= 7000 /\ a <= 6000 /\ f.meanReversion > 6000)
                        => r.type = "ranging" /\ r.confidence = f.meanReversion
                  /\ (f.volatility <= 7000 /\ a <= 6000 /\ f.meanReversion <= 6000)
                        => r.type = "stable" /\ r.confidence = 5000 ]_vars

\* C21 witness: detectRegime has returned volatile with the volatility as
\* confidence, and its saveMarketFeatures call is still in flight.
C21_Witness ==
    /\ lastRegime = <<[type |-> "volatile", confidence |-> 9000]>>
    /\ twin.regime = lastRegime
    /\ pending # <<>>

\* C22: every signal returned by generateSignal has a confidence in [0, 1],
\* for every strategy and all feature values, an order-flow imbalance of
\* magnitude above 1 and a negative momentum in the breakout heuristic
\* included.
C22_SignalConfidenceInUnitInterval ==
    \A i \in DOMAIN accepted :
        /\ accepted[i].signal.confidence >= 0
        /\ accepted[i].signal.confidence <= 10000

\* C23: every MarketRegime returned by detectRegime has a confidence in
\* [0, 1], for all price histories.
C23_RegimeConfidenceInUnitInterval ==
    \A i \in DOMAIN lastRegime :
        lastRegime[i].confidence >= 0 /\ lastRegime[i].confidence <= 10000

\* C24: a heuristic that does not fire yields hold with confidence 0, and
\* generateSignal never persists, records or returns a hold signal, under
\* any configuration accepted by the constructor or by updateConfig.
C24_HoldNeverReturned ==
    /\ \A i \in DOMAIN inflight : inflight[i].signal.action # "hold"
    /\ \A i \in DOMAIN recentSignals : recentSignals[i].action # "hold"
    /\ \A i \in DOMAIN accepted : accepted[i].signal.action # "hold"

\* The tuning that updateTrailingStop and checkExitConditions read for a
\* position under a configuration
TuningOf(p, cfg) ==
    LET mcfg == defaultConfigs(cfg)[p.profitLockMethod]
    IN  <<mcfg.trailingPercent, mcfg.edgeDecayThreshold, mcfg.maxDrawdownPercent,
          mcfg.timeBasedExitMinutes>>

\* C25: the profit-lock tuning applied to a live position (trailing percent,
\* edge-decay threshold, max-drawdown percent and time limit of its method)
\* is the one in force when the position was added: no step changes it
\* while the position lives, an updateConfig on the engine included.
C25_TuningFixedForLife ==
    [][ \A u \in Uids(positions) \cap Uids(positions') :
           TuningOf(ByUid(positions', u), config') = TuningOf(ByUid(positions, u), config)
      ]_vars

\* C26: within one trading cycle, a symbol for which extractFeatures or
\* detectRegime returns nothing is skipped for that tick only: the cycle
\* goes on to every other symbol of the same tick.
C26_SkipOnlyTheSymbol ==
    [][ CycleInsufficientData =>
           running' = ContinueCycle(Tail(running[1].rest), running[1].data) ]_vars

C28_CleanupRemovesInactiveOnly ==
    [][ \A A \in ActiveSets : CleanupOldSymbolsCall(A) =>
           /\ \A s \in Symbols \ A :
                 /\ s \notin DOMAIN fePriceHistory'
                 /\ s \notin DOMAIN feVolumeHistory'
                 /\ s \notin DOMAIN feOrderBookHistory'
           /\ \A s \in A :
                 /\ s \in DOMAIN fePriceHistory' <=> s \in DOMAIN fePriceHistory
                 /\ s \in DOMAIN feVolumeHistory' <=> s \in DOMAIN feVolumeHistory
                 /\ s \in DOMAIN feOrderBookHistory' <=> s \in DOMAIN feOrderBookHistory
                 /\ s \in DOMAIN fePriceHistory
                       => fePriceHistory'[s] = fePriceHistory[s]
                 /\ s \in DOMAIN feVolumeHistory
                       => feVolumeHistory'[s] = feVolumeHistory[s]
                 /\ s \in DOMAIN feOrderBookHistory
                       => feOrderBookHistory'[s] = feOrderBookHistory[s]
           /\ LET once == cleanupOldSymbols(FeatureState, A)
              IN  cleanupOldSymbols(once, A) = once ]_vars

\* C28 witness: a clean-up has kept BTCUSDT, with its prices, volumes and
\* order books, and has removed every buffer of ETHUSDT.  (BTCUSDT holds
\* more prices than order books, so a tick has carried both symbols, and
\* ETHUSDT is tracked no more.)
C28_Witness ==
    /\ feCleanups >= 1
    /\ DOMAIN fePriceHistory = {"BTCUSDT"}
    /\ DOMAIN feVolumeHistory = {"BTCUSDT"}
    /\ DOMAIN feOrderBookHistory = {"BTCUSDT"}
    /\ Len(feOrderBookHistory["BTCUSDT"]) >= 1
    /\ Len(fePriceHistory["BTCUSDT"]) > Len(feOrderBookHistory["BTCUSDT"])

\* The conditions of the claim that hold for a position, by the name the
\* exit reason gives them
ConditionsThatHold(p) ==
    (IF TrailingStopBreach(p) THEN <<"Trailing stop triggered">> ELSE <<>>)
    \o (IF TakeProfitBreach(p) THEN <<"Take profit reached">> ELSE <<>>)
    \o (IF TimeLimitReached(p) THEN <<"Time-based exit">> ELSE <<>>)
    \o (IF EdgeDecayBreach(p) /\ now - p.entryTime > 60000
        THEN <<"Edge decay threshold reached">> ELSE <<>>)
    \o (IF MaxDrawdownBreach(p) /\ p.unrealizedPnL < 0
        THEN <<"Maximum drawdown exceeded">> ELSE <<>>)

\* The closePosition calls a step has added for a position
NewCloses(u) ==
    {k \in DOMAIN closeLog' : k > Len(closeLog) /\ closeLog'[k].uid = u}

\* C29: for a position at least 10 seconds old, an updatePositions tick that
\* carries a price for its symbol closes it if and only if at least one of
\* the five conditions holds after the update (trailing-stop breach,
\* take-profit breach, time limit of a method with a nonzero limit, edge-decay
\* score below threshold after 60 seconds of age, max-drawdown breach while
\* unprofitable), and the exit reason lists exactly the conditions that hold;
\* a position younger than 10 seconds is not closed whatever the conditions.
C29_ExitIffConditionWithExactReasons ==
    [][ \A prices \in PriceMapsExit : UpdatePositionsCall(prices) =>
           \A i \in DOMAIN positions :
               LET p == positions[i]
                   q == updatePositionObj(p, prices[p.symbol], config, now)
                   holding == ConditionsThatHold(q)
               IN  prices[p.symbol] # 0 =>
                     IF now - p.entryTime >= 10000
                     THEN /\ p.uid \notin Uids(positions') <=> holding # <<>>
                          /\ holding # <<>> =>
                                /\ Cardinality(NewCloses(p.uid)) = 1
                                /\ \A k \in NewCloses(p.uid) :
                                      closeLog'[k].reason = holding
                          /\ holding = <<>> => NewCloses(p.uid) = {}
                     ELSE /\ p.uid \in Uids(positions')
                          /\ NewCloses(p.uid) = {} ]_vars

\* C29 witness: a position older than 10 seconds has been closed by a tick
\* after which two conditions held, and its exit reason lists both.
C29_Witness ==
    \E k \in DOMAIN closeLog :
        /\ closeLog[k].age >= 10000
        /\ closeLog[k].reason = <<"Trailing stop triggered", "Maximum drawdown exceeded">>

\* C30: a position is never closed with the max-drawdown reason in a tick in
\* which its unrealizedPnL after the update is greater than or equal to 0,
\* whatever its recorded maxDrawdownFromPeak.
C30_NoDrawdownExitInProfit ==
    \A k \in DOMAIN closeLog :
        "Maximum drawdown exceeded" \in Range(closeLog[k].reason)
            => closeLog[k].realized_pnl < 0

\* C30 witness: a long position entered at 100 has seen 110 and then, older
\* than 10 seconds, 108: a drawdown of 20% of its peak PnL, above the 15% of
\* its method, with a PnL above zero.  The tick has closed it, and the reason
\* is the take profit alone.
C30_Witness ==
    /\ priceHistory["BTCUSDT"] = <<110 * Scale, 108 * Scale>>
    /\ \E k \in DOMAIN closeLog :
          /\ closeLog[k].age >= 10000
          /\ closeLog[k].method = "volatility_adaptive_trailing_stop"
          /\ closeLog[k].realized_pnl = 8 * Scale
          /\ closeLog[k].reason = <<"Take profit reached">>

\* What an updatePositions call with these prices does, step by step
TraceOf(prices) == updatePositionsOp(EngineOf(positions), prices, now, 0).trace

\* Every evaluation directly follows an update of the same position by the
\* same call, and finds the fields that update has written.
EvaluatedRightAfterUpdate(trace) ==
    \A k \in DOMAIN trace :
        trace[k].ev = "check" =>
            /\ k > 1
            /\ trace[k - 1].ev = "update"
            /\ trace[k - 1].uid = trace[k].uid
            /\ trace[k - 1].price = trace[k].price
            /\ trace[k].obj.currentPrice = trace[k].price
            /\ trace[k].obj.unrealizedPnL = trace[k - 1].obj.unrealizedPnL
            /\ trace[k].obj.maxDrawdownFromPeak = trace[k - 1].obj.maxDrawdownFromPeak
            /\ trace[k].obj.edgeDecayScore = trace[k - 1].obj.edgeDecayScore
            /\ trace[k].obj.trailingStopPrice = trace[k - 1].obj.trailingStopPrice

\* C31: within one tick, the exit evaluation of a position uses the price,
\* PnL, drawdown, edge-decay score and trailing stop that the update of the
\* same tick has computed for it, and nothing, no update of the position by
\* another updatePositions call either, comes between that update and the
\* evaluation; every update is followed by its evaluation.
C31_EvaluationFollowsOwnUpdate ==
    [][ \A prices \in PriceMapsCap : UpdatePositionsCall(prices) =>
           LET trace == TraceOf(prices)
           IN  /\ EvaluatedRightAfterUpdate(trace)
               /\ \A k \in DOMAIN trace :
                     trace[k].ev = "update" =>
                        /\ k < Len(trace)
                        /\ trace[k + 1].ev = "check"
                        /\ trace[k + 1].uid = trace[k].uid ]_vars

\* C31 witness: the exit of one position has run the subscriber that calls
\* updatePositions with other prices; a younger position of the same tick
\* was updated by that call first and by the tick afterwards, and is live
\* with the price of the tick.
C31_Witness ==
    /\ closeLog # <<>>
    /\ Repricing \in Range(exitCallbacks)
    /\ \E j \in DOMAIN positions :
          LET p == positions[j]
              h == priceHistory[p.symbol]
          IN  /\ p.currentPrice = 95 * Scale
              /\ Len(h) >= 2
              /\ h[Len(h) - 1] = RepricePrices[p.symbol]
              /\ h[Len(h)] = 95 * Scale

\* How often a call has updated (or evaluated) the position u
TraceCount(trace, ev, u) ==
    Cardinality({k \in DOMAIN trace : trace[k].ev = ev /\ trace[k].uid = u})

\* C32: in one updatePositions call every live position whose symbol has a
\* price in the update is updated exactly once and evaluated exactly once,
\* also when exits of the same call remove other positions, and is closed
\* or left live with the fields that update gives it; a position whose
\* symbol has no price is neither updated nor evaluated and stays as it
\* was.
C32_EveryPricedPositionOnce ==
    [][ \A prices \in PriceMaps : UpdatePositionsCall(prices) =>
           LET trace == TraceOf(prices)
           IN  \A i \in DOMAIN positions :
                  LET p == positions[i]
                  IN  IF prices[p.symbol] # 0
                      THEN /\ TraceCount(trace, "update", p.uid) = 1
                           /\ TraceCount(trace, "check", p.uid) = 1
                           /\ \/ Cardinality(NewCloses(p.uid)) = 1
                                 /\ p.uid \notin Uids(positions')
                              \/ /\ NewCloses(p.uid) = {}
                                 /\ updatePositionObj(p, prices[p.symbol], config, now)
                                       \in Range(positions')
                      ELSE /\ TraceCount(trace, "update", p.uid) = 0
                           /\ TraceCount(trace, "check", p.uid) = 0
                           /\ NewCloses(p.uid) = {}
                           /\ p \in Range(positions') ]_vars

\* C32 witness: a tick has closed the first of two positions; the second,
\* behind it in the live set and older than 10 seconds too, was updated by
\* the same tick and stays.
C32_Witness ==
    /\ Len(closeLog) = 1
    /\ Len(positions) = 1
    /\ positions[1].uid > closeLog[1].uid
    /\ positions[1].currentPrice # positions[1].entryPrice
    /\ now - positions[1].entryTime >= 10000

\* C33: recentSignals never holds more than 100 signals; it changes only
\* when generateSignal accepts a signal, which is appended, after the oldest
\* one has been dropped when the buffer held 100; a candidate rejected for
\* low confidence, cooldown, cap or a failed write is never appended.
C33_RecentSignalsRing ==
    [][ /\ Len(recentSignals') <= 100
        /\ recentSignals' # recentSignals =>
              /\ Len(accepted') = Len(accepted) + 1
              /\ failed' = failed
              /\ LET signal == accepted'[Len(accepted')].signal
                 IN  /\ signal.confidence >= orchConfig.minConfidenceThreshold
                     /\ recentSignals' = IF Len(recentSignals) = 100
                                         THEN Append(Tail(recentSignals), signal)
                                         ELSE Append(recentSignals, signal)
        /\ Len(accepted') = Len(accepted) + 1 => recentSignals' # recentSignals
        /\ accepted' = accepted => recentSignals' = recentSignals
        /\ failed' # failed => recentSignals' = recentSignals ]_vars

\* C33 witness: 101 signals have been accepted; the buffer holds the last
\* 100 of them, the first one is gone.
C33_Witness ==
    /\ Len(accepted) = 101
    /\ Len(recentSignals) = 100
    /\ recentSignals[1] = accepted[2].signal
    /\ recentSignals[100] = accepted[101].signal

\* The method the claim names for a strategy id
ClaimedMethod(strategy) ==
    CASE strategy = "scalping" -> "partial_profit_scaling"
      [] strategy \in {"momentum", "trend_following", "breakout"} ->
             "volatility_adaptive_trailing_stop"
      [] strategy = "mean_reversion" -> "fixed_take_profit"
      [] strategy \in {"swing_trading", "contextual_bandits"} -> "drawdown_trailing_stop"
      [] strategy = "statistical_arbitrage" -> "edge_decay_exit"
      [] OTHER -> "volatility_adaptive_trailing_stop"

\* C34: an addPosition call that the capacity checks let through adds a
\* position whose profit-lock method is the one the fixed map gives for the
\* strategy of the signal, the volatility-adaptive trailing stop for any
\* other strategy id; the method is one of the six configured methods.
C34_MethodByFixedMap ==
    [][ \A strategy \in StrategyInputsMethod, symbol \in Symbols :
           ( /\ AddPositionCall(symbol, "buy", strategy, 100 * Scale, 1, TRUE)
             /\ ~ addPositionRefused(positions, config,
                                     [symbol |-> symbol, strategy |-> strategy]) )
           => \E j \in DOMAIN positions' :
                 /\ positions'[j].uid = nextUid
                 /\ positions'[j].originalSignal.strategy = strategy
                 /\ positions'[j].profitLockMethod = ClaimedMethod(strategy)
                 /\ positions'[j].profitLockMethod \in MethodNames ]_vars

\* C35: every arm has alpha + beta = trials + 1 and wins = alpha in every
\* state, and its trials, wins, alpha and beta never decrease; the arms
\* change only in a step that applies updateReward (a call of it, or a tick
\* whose exits call it): selectStrategy calls and the steps of generateSignal
\* leave every arm as it is.
C35_ArmsGrowOnlyByRewards ==
    [][ /\ \A s \in StrategyIds :
              /\ banditArms'[s].alpha + banditArms'[s].beta = banditArms'[s].trials + 1
              /\ banditArms'[s].wins = banditArms'[s].alpha
              /\ banditArms'[s].trials >= banditArms[s].trials
              /\ banditArms'[s].wins >= banditArms[s].wins
              /\ banditArms'[s].alpha >= banditArms[s].alpha
              /\ banditArms'[s].beta >= banditArms[s].beta
        /\ banditArms' # banditArms =>
              \/ \E strategy \in RewardStrategies, profit \in RewardProfits :
                    UpdateRewardCall(strategy, profit)
              \/ /\ nUpdates' = nUpdates + 1
                 /\ Len(closeLog') > Len(closeLog)
                 /\ Len(cbLog') > Len(cbLog)
        /\ (selections' # selections \/ inflight' # inflight \/ accepted' # accepted
               \/ failed' # failed \/ (running # <<>> /\ nUpdates' = nUpdates))
              => banditArms' = banditArms ]_vars

\* C35 witness: after the exit of a position has rewarded an arm and another
\* caller has reported a loss, selectStrategy has been called on these arms
\* and a generateSignal call is suspended on saveSignal.
C35_Witness ==
    /\ closeLog # <<>>
    /\ \E s \in StrategyIds : banditArms[s].beta = 2
    /\ RewardsApplied >= 2
    /\ selections # <<>>
    /\ selections[Len(selections)].arms = banditArms
    /\ inflight # <<>>

\* C36: every successful addPosition adds exactly one entry to the live set,
\* under an id that no live position had, and every position that was live
\* is still live after it, also for two calls for one symbol at the same
\* clock millisecond.
C36_AddNeverReplaces ==
    [][ nextUid' = nextUid + 1 =>
           /\ Len(positions') = Len(positions) + 1
           /\ \A i \in DOMAIN positions : positions[i].id # lastResult'
           /\ Uids(positions) \subseteq Uids(positions') ]_vars

\* The highest and the lowest price the live positions of a symbol have been
\* updated with (positions opened before the first tick)
HighestObserved(ph, symbol) ==
    CHOOSE x \in Range(ph[symbol]) : \A y \in Range(ph[symbol]) : y <= x

LowestObserved(ph, symbol) ==
    CHOOSE x \in Range(ph[symbol]) : \A y \in Range(ph[symbol]) : x <= y

\* The stop the trailing rule yields for position p from its initial stop
\* and the extreme price observed, under configuration cfg
TrailedStop(p, ph, cfg) ==
    LET mcfg == defaultConfigs(cfg)[p.profitLockMethod]
        initial == calculateInitialStopPrice(p.originalSignal, cfg)
    IN  IF p.side = "long"
        THEN Max(initial, (HighestObserved(ph, p.symbol) * (10000 - mcfg.trailingPercent)) \div 10000)
        ELSE Min(initial, (LowestObserved(ph, p.symbol) * (10000 + mcfg.trailingPercent)) \div 10000)

\* C37: after every update of a position its trailingStopPrice is, for a
\* long, the maximum of its initial stop and (1 - trailingPercent) times the
\* highest price observed for it, and for a short the minimum of its initial
\* stop and (1 + trailingPercent) times the lowest price observed.
C37_StopFollowsExtremePrice ==
    [][ nUpdates' = nUpdates + 1 =>
           \A i \in DOMAIN positions' :
               priceHistory'[positions'[i].symbol] # priceHistory[positions'[i].symbol]
                  => positions'[i].trailingStopPrice = TrailedStop(positions'[i], priceHistory', config') ]_vars

\* The PnL of position p at price x
PnLAt(p, x) ==
    IF p.side = "long" THEN (x - p.entryPrice) * p.size ELSE (p.entryPrice - x) * p.size

\* The maximum of 0 and every PnL computed for p (positions opened before
\* the first tick: the history of the symbol holds the prices p was updated with)
HighestPnL(p, ph) ==
    LET pnls == {0} \cup {PnLAt(p, x) : x \in Range(ph[p.symbol])}
    IN  CHOOSE m \in pnls : \A v \in pnls : v <= m

\* C38: for every live position peakPnL is non-negative, at least the current
\* unrealizedPnL and equal to the maximum of 0 and every unrealizedPnL computed
\* since entry, and no step decreases it.
C38_PeakIsHighestPnL ==
    [][ /\ \A i \in DOMAIN positions' :
              /\ positions'[i].peakPnL >= 0
              /\ positions'[i].peakPnL >= positions'[i].unrealizedPnL
              /\ positions'[i].peakPnL = HighestPnL(positions'[i], priceHistory')
        /\ \A u \in Uids(positions) \cap Uids(positions') :
              ByUid(positions', u).peakPnL >= ByUid(positions, u).peakPnL ]_vars

\* C38 witness: a live position after several updates, whose PnL rose above 0
\* and has since fallen below 0 while the peak is kept.
C38_Witness ==
    \E i \in DOMAIN positions :
        /\ Len(priceHistory[positions[i].symbol]) >= 3
        /\ positions[i].peakPnL > 0
        /\ positions[i].unrealizedPnL < 0

\* The closePosition calls from index k on for positions of strategy s
ExitsOf(log, k, s) == {j \in DOMAIN log : j >= k /\ log[j].strategy = s}

\* C39: with the dashboard's callback registered, every exit of a position
\* whose strategy has an arm applies one updateReward to that arm with the
\* final PnL of the position (one more trial, and one more win exactly when
\* the PnL is positive, recorded as the arm's latest performance), and the
\* sum over the arms of trials - 1 is the number of positions that have
\* exited with such a strategy.
C39_OneRewardPerExit ==
    [][ /\ RewardsApplied' = Cardinality({j \in DOMAIN closeLog' : closeLog'[j].strategy \in StrategyIds})
        /\ \A s \in StrategyIds :
              LET new == ExitsOf(closeLog', Len(closeLog) + 1, s)
              IN  /\ banditArms'[s].trials = banditArms[s].trials + Cardinality(new)
                  /\ banditArms'[s].wins = banditArms[s].wins
                        + Cardinality({j \in new : closeLog'[j].realized_pnl > 0})
                  /\ new # {} =>
                        \E j \in new : performance'[s][Len(performance'[s])] = closeLog'[j].realized_pnl
        /\ \A j \in DOMAIN closeLog' :
              Cardinality({k \in DOMAIN cbLog' : cbLog'[k].uid = closeLog'[j].uid
                                                  /\ cbLog'[k].cb = "reward"}) = 1 ]_vars

\* C39 witness: a position with an arm has exited with a loss, another with a
\* profit, and a position of a strategy without an arm has exited too.
C39_Witness ==
    /\ \E j \in DOMAIN closeLog : closeLog[j].strategy \in StrategyIds /\ closeLog[j].realized_pnl < 0
    /\ \E j \in DOMAIN closeLog : closeLog[j].strategy \in StrategyIds /\ closeLog[j].realized_pnl > 0
    /\ \E j \in DOMAIN closeLog : closeLog[j].strategy \notin StrategyIds
    /\ RewardsApplied = Len(closeLog) - 1

Exited(u) == \E k \in DOMAIN closeLog : closeLog[k].uid = u

\* C40: while time keeps advancing and ticks keep carrying a price for its
\* symbol, every live position eventually exits; and a tick that carries its
\* price when its edge-decay score is below the threshold of its method (the
\* position being older than a minute) closes it.
C40_EveryPositionExits ==
    /\ \A u \in 1..MaxAddsLive :
          TicksKeepArriving => ((u \in Uids(positions)) ~> Exited(u))
    /\ [][ FullTickLive =>
              \A i \in DOMAIN positions :
                  ( /\ calculateEdgeDecay(positions[i].entryTime, now)
                          < MethodConfig(positions[i]).edgeDecayThreshold
                    /\ now - positions[i].entryTime > 60000 )
                  => /\ positions[i].uid \notin Uids(positions')
                     /\ \E k \in DOMAIN closeLog' : closeLog'[k].uid = positions[i].uid ]_vars

\* C40 witness: a position has been closed for edge decay alone, more than a
\* day after its entry, while another position is still live.
C40_Witness ==
    /\ \E k \in DOMAIN closeLog :
          /\ closeLog[k].reason = <<"Edge decay threshold reached">>
          /\ closeLog[k].age > 24 * 3600000
    /\ positions # <<>>

====
